---------------------------- MODULE Spec2Model ----------------------------
(***************************************************************************)
(* A model of the memory-management core of the Theseus UEFI bootloader:   *)
(* the address/page/frame algebra, the watermark FrameAllocator, the       *)
(* top-level-entry PageAllocator, the Mapper (x86_64 and aarch64), the     *)
(* ELF LOAD-segment loader and the boot-info allocation before handoff.    *)
(*                                                                         *)
(* A usize is 64 bits wide.  It is kept as three limbs                     *)
(*     top = bits [39,64)   mid = bits [12,39)   off = bits [0,12)         *)
(* so that the page offset, the page number (top, mid) and the top-level   *)
(* table index (top % 512) are all exact, and every limb stays small.      *)
(***************************************************************************)
EXTENDS Integers, Sequences, FiniteSets, TLC

VARIABLES
    arch,               \* the architecture the crate is built for
    memory_map,         \* FrameAllocator.original: the firmware memory map
    memory_map_pos,     \* FrameAllocator.memory_map: descriptors consumed by the iterator
    current_descriptor, \* FrameAllocator.current_descriptor (0 = None, else index)
    next_frame,         \* FrameAllocator.next_frame, the watermark
    returned,           \* history: the frames allocate_frame has returned, in order,
                        \*          each with the descriptor it was drawn from
    last_alloc,         \* history: outcome of the latest allocate_frame call
    halted,             \* "" while running, else the panic that halted the bootloader
    level_4_entries,    \* PageAllocator.level_4_entries (level_0_entries on aarch64)
    windows,            \* history: what each get_free_address call that returned was
                        \*          asked and gave, and the segments marked before it
    marked,             \* history: the segments mark_segment_as_used was called with
    root,               \* Mapper: the frame of the root page table (None before Mapper::new)
    tables,             \* physical memory read as page tables: frame -> index -> entry
    log,                \* history: the mark and map calls, in program order
    build,              \* which revision of the bootloader runs: "src" (src/src),
                        \* "main" (uefi-bootloader/src/main.rs) or "context"
                        \* (uefi-bootloader/src/context.rs and its callers)
    pc,                 \* the step of main that runs next
    elf,                \* input: the program headers of the kernel file
    ph_index,           \* kernel::load: program headers handled so far
    frame_buffer,       \* input: the firmware's frame buffer, None or Some([start, size])
    boot_info_input,    \* input: the lengths of the three boot information slices
    memory_writes,      \* physical memory: the byte ranges written, oldest first
    loaded,             \* history: the LOAD segments handled and where each was put
    mappings,           \* Mappings of set_up_mappings, None before it ran
    boot_info,          \* the boot information allocation / header, None before it exists
    context,            \* the Context handed to context_switch, None before handoff
    system_table,       \* static mut SYSTEM_TABLE: None or Some("system table")
    services,           \* the firmware: "Boot" until exit_boot_services returned, then "Runtime"
    firmware_calls,     \* history: the firmware services invoked, each with the state
                        \*          the firmware was in
    instructions,       \* history: what context_switch executed, in order
    kernel_header,      \* the ELF header of kernel.elf as Header::from_bytes reads it
    boot_info_writes,   \* history: the parts of the boot information written, each with
                        \*          the state the firmware was in
    call,               \* a function of the bootloader and the arguments it is applied to
    result              \* what the call returned, None while it has not run

faVars == <<memory_map, memory_map_pos, current_descriptor, next_frame, returned, last_alloc>>

paVars == <<level_4_entries, windows, marked>>

mapVars == <<root, tables, log>>

bootVars == <<build, pc, elf, ph_index, frame_buffer, boot_info_input, memory_writes,
              loaded, mappings, boot_info, context, system_table, services, firmware_calls,
              instructions, kernel_header, boot_info_writes>>

pureVars == <<call, result>>

vars == <<arch, halted, faVars, paVars, mapVars, bootVars, pureVars>>

\* `let name = value;`: what follows reads the value under the name
Let(value, In(_)) == In(value)

---------------------------------------------------------------------------
(* usize arithmetic on limbs *)

PAGE_SIZE == 4096

ENTRY_COUNT == 512

\* number of values of the mid limb: bits [12,39)
MidSize == ENTRY_COUNT * ENTRY_COUNT * ENTRY_COUNT

\* number of values of the top limb: bits [39,64)
TopSize == ENTRY_COUNT * 65536

U64(t, m, o) == [top |-> t, mid |-> m, off |-> o]

U64Zero == U64(0, 0, 0)

U64Max == U64(TopSize - 1, MidSize - 1, PAGE_SIZE - 1)

\* a usize below 2^31 given as a number
FromInt(n) == U64(0, n \div PAGE_SIZE, n % PAGE_SIZE)

U64Lt(a, b) ==
    \/ a.top < b.top
    \/ a.top = b.top /\ a.mid < b.mid
    \/ a.top = b.top /\ a.mid = b.mid /\ a.off < b.off

U64Le(a, b) == a = b \/ U64Lt(a, b)

\* usize::saturating_add
saturating_add(a, b) ==
    LET o == a.off + b.off
        m == a.mid + b.mid + (o \div PAGE_SIZE)
        t == a.top + b.top + (m \div MidSize)
    IN  IF t >= TopSize THEN U64Max
        ELSE U64(t, m % MidSize, o % PAGE_SIZE)

\* u64 `+` where the sum stays below 2^64
U64Add(a, b) ==
    LET o == a.off + b.off
        m == a.mid + b.mid + (o \div PAGE_SIZE)
    IN  U64((a.top + b.top + (m \div MidSize)) % TopSize, m % MidSize, o % PAGE_SIZE)

\* usize::saturating_sub
saturating_sub(a, b) ==
    IF U64Le(a, b) THEN U64Zero
    ELSE LET o  == a.off - b.off
             bo == IF o < 0 THEN 1 ELSE 0
             m  == a.mid - b.mid - bo
             bm == IF m < 0 THEN 1 ELSE 0
         IN  U64(a.top - b.top - bm, m + bm * MidSize, o + bo * PAGE_SIZE)

---------------------------------------------------------------------------
(* Architecture shim: canonicalization *)

Archs == {"x86_64", "aarch64"}

\* x86_64: ((virt_addr << 16) as isize >> 16): bits [48,64) copy bit 47.
\* aarch64: virt_addr & 0x0000_FFFF_FFFF_FFFF.
canonicalize_virtual_address(a, v) ==
    LET low == v.top % ENTRY_COUNT
    IN  IF a = "x86_64" /\ low >= ENTRY_COUNT \div 2
        THEN [v EXCEPT !.top = low + (TopSize - ENTRY_COUNT)]
        ELSE [v EXCEPT !.top = low]

\* x86_64: phys_addr & 0x000F_FFFF_FFFF_FFFF (bits [52,64) cleared).
\* aarch64: phys_addr & 0x0000_FFFF_FFFF_FFFF (bits [48,64) cleared).
canonicalize_physical_address(a, p) ==
    IF a = "x86_64"
    THEN [p EXCEPT !.top = p.top % (ENTRY_COUNT * 16)]
    ELSE [p EXCEPT !.top = p.top % ENTRY_COUNT]

\* mutant: only the low half counts as canonical
is_canonical_virtual_address_low_half(a, v) == v.top \div (ENTRY_COUNT \div 2) = 0

\* x86_64: matches!(virt_addr.get_bits(47..64), 0 | 0b1_1111_1111_1111_1111).
\* aarch64: virt_addr.get_bits(48..64) == 0.
is_canonical_virtual_address(a, v) ==
    IF a = "x86_64"
    THEN v.top \div (ENTRY_COUNT \div 2) \in {0, TopSize \div (ENTRY_COUNT \div 2) - 1}
    ELSE v.top \div ENTRY_COUNT = 0

\* x86_64: phys_addr.get_bits(52..64) == 0.
\* aarch64: phys_addr.get_bits(48..64) == 0.
is_canonical_physical_address(a, p) ==
    IF a = "x86_64"
    THEN p.top \div (ENTRY_COUNT * 16) = 0
    ELSE p.top \div ENTRY_COUNT = 0

---------------------------------------------------------------------------
(* VirtualAddress / PhysicalAddress, Page / Frame *)

\* VirtualAddress::new / PhysicalAddress::new
Address_new(a, virtual, addr) ==
    IF (IF virtual THEN is_canonical_virtual_address(a, addr)
        ELSE is_canonical_physical_address(a, addr))
    THEN <<addr>> ELSE <<>>

VirtualAddress_new_canonical(a, v) == canonicalize_virtual_address(a, v)

PhysicalAddress_new_canonical(a, p) == canonicalize_physical_address(a, p)

\* impl Add<usize> for VirtualAddress / PhysicalAddress
VirtualAddress_add(a, v, rhs) == VirtualAddress_new_canonical(a, saturating_add(v, rhs))

PhysicalAddress_add(a, p, rhs) == PhysicalAddress_new_canonical(a, saturating_add(p, rhs))

\* impl Sub<usize> for VirtualAddress / PhysicalAddress
VirtualAddress_sub(a, v, rhs) == VirtualAddress_new_canonical(a, saturating_sub(v, rhs))

PhysicalAddress_sub(a, p, rhs) == PhysicalAddress_new_canonical(a, saturating_sub(p, rhs))

\* A Page or Frame is its number, addr / PAGE_SIZE: the limbs (top, mid).
Chunk(t, m) == [top |-> t, mid |-> m]

containing_address(addr) == Chunk(addr.top, addr.mid)

ChunkAddress(c) == U64(c.top, c.mid, 0)

Page_start_address(a, c) == VirtualAddress_new_canonical(a, ChunkAddress(c))

Frame_start_address(a, c) == PhysicalAddress_new_canonical(a, ChunkAddress(c))

MAX_PAGE_NUMBER == Chunk(TopSize - 1, MidSize - 1)

ChunkLt(c, d) == c.top < d.top \/ (c.top = d.top /\ c.mid < d.mid)

ChunkLe(c, d) == c = d \/ ChunkLt(c, d)

\* impl Add<usize> for Page / Frame, rhs a small number:
\* min(MAX_PAGE_NUMBER, number.saturating_add(rhs))
Chunk_add(c, rhs) ==
    LET m == c.mid + rhs
        t == c.top + (m \div MidSize)
    IN  IF t >= TopSize THEN MAX_PAGE_NUMBER ELSE Chunk(t, m % MidSize)

\* impl Sub<usize> for Page / Frame, rhs a small number: number.saturating_sub(rhs)
Chunk_sub(c, rhs) ==
    LET m == c.mid - rhs
    IN  IF m >= 0 THEN Chunk(c.top, m)
        ELSE IF c.top = 0 THEN Chunk(0, 0)
        ELSE Chunk(c.top - 1, m + MidSize)

\* The frame with a small number n.
FrameNo(n) == Chunk(0, n)

---------------------------------------------------------------------------
(* FrameAllocator *)

None == <<>>

Some(x) == <<x>>

CONVENTIONAL == "CONVENTIONAL"

\* MemoryDescriptor { ty, phys_start, page_count }
MemoryDescriptor(ty, start, count) == [ty |-> ty, phys_start |-> start, page_count |-> count]

\* FrameAllocator::new: frames below 0x10000 are never handed out
LOW_MEMORY_LIMIT == 65536

FrameAllocator_new_start_frame(a) ==
    containing_address(PhysicalAddress_new_canonical(a, FromInt(LOW_MEMORY_LIMIT)))

\* the inclusive frame range allocate_frame_from_descriptor computes
descriptor_start_frame(a, d) ==
    containing_address(PhysicalAddress_new_canonical(a, d.phys_start))

descriptor_end_frame(a, d) ==
    LET start_addr == PhysicalAddress_new_canonical(a, d.phys_start)
        end_addr   == PhysicalAddress_add(a, start_addr, FromInt(d.page_count * PAGE_SIZE))
    IN  containing_address(PhysicalAddress_sub(a, end_addr, FromInt(1)))

\* `if self.next_frame < end_frame`
descriptor_has_frame(nf, end_frame) == ChunkLt(nf, end_frame)

\* mutant: the watermark is set to the descriptor's start even when it is past it
allocate_frame_from_descriptor_rewinds(a, nf, d) ==
    LET start_frame == descriptor_start_frame(a, d)
        end_frame   == descriptor_end_frame(a, d)
    IN  IF descriptor_has_frame(start_frame, end_frame)
        THEN [frame |-> Some(start_frame), next_frame |-> Chunk_add(start_frame, 1)]
        ELSE [frame |-> None, next_frame |-> start_frame]

\* FrameAllocator::allocate_frame_from_descriptor: the frame (or None) and the
\* watermark it leaves
allocate_frame_from_descriptor(a, nf, d) ==
    LET start_frame == descriptor_start_frame(a, d)
        end_frame   == descriptor_end_frame(a, d)
        nf1         == IF ChunkLt(nf, start_frame) THEN start_frame ELSE nf
    IN  IF descriptor_has_frame(nf1, end_frame)
        THEN [frame |-> Some(nf1), next_frame |-> Chunk_add(nf1, 1)]
        ELSE [frame |-> None, next_frame |-> nf1]

\* mutant: the type of the descriptor is not looked at
is_usable_any_type(d) == TRUE

\* `if descriptor.ty != MemoryType::CONVENTIONAL { continue; }`
is_usable(d) == d.ty = CONVENTIONAL

\* the `while let Some(descriptor) = self.memory_map.next()` loop of allocate_frame
RECURSIVE find_next_descriptor(_, _, _, _)
find_next_descriptor(a, map, pos, nf) ==
    IF pos >= Len(map)
    THEN [frame |-> None, pos |-> pos, current |-> 0, next_frame |-> nf]
    ELSE LET d == map[pos + 1]
         IN  IF ~is_usable(d)
             THEN find_next_descriptor(a, map, pos + 1, nf)
             ELSE Let(allocate_frame_from_descriptor(a, nf, d), LAMBDA r :
                      IF r.frame # None
                      THEN [frame |-> r.frame, pos |-> pos + 1, current |-> pos + 1,
                            next_frame |-> r.next_frame]
                      ELSE find_next_descriptor(a, map, pos + 1, r.next_frame))

\* mutant: the iterator starts over from the first descriptor once it has ended
allocate_frame_restarts(a, map, pos, cur, nf) ==
    Let(IF cur # 0
        THEN allocate_frame_from_descriptor(a, nf, map[cur])
        ELSE [frame |-> None, next_frame |-> nf], LAMBDA r :
        IF r.frame # None
        THEN [frame |-> r.frame, pos |-> pos, current |-> cur, next_frame |-> r.next_frame]
        ELSE Let(find_next_descriptor(a, map, pos, r.next_frame), LAMBDA found :
                 IF found.frame = None THEN [found EXCEPT !.pos = 0] ELSE found))

\* FrameAllocator::allocate_frame on the allocator (map, pos, cur, nf)
allocate_frame(a, map, pos, cur, nf) ==
    Let(IF cur # 0
        THEN allocate_frame_from_descriptor(a, nf, map[cur])
        ELSE [frame |-> None, next_frame |-> nf], LAMBDA r :
        IF r.frame # None
        THEN [frame |-> r.frame, pos |-> pos, current |-> cur, next_frame |-> r.next_frame]
        ELSE find_next_descriptor(a, map, pos, r.next_frame))

\* mutant: the length of the iterator that allocate_frame advances
FrameAllocator_len_of_memory_map == Len(memory_map) - memory_map_pos

\* FrameAllocator::len
FrameAllocator_len == Len(memory_map)

\* FrameAllocator::max_phys_addr: the largest end of a descriptor of a clone
\* of `original`
max_phys_addr(a, original) ==
    Let({ PhysicalAddress_new_canonical(a,
              U64Add(original[i].phys_start, FromInt(original[i].page_count * PAGE_SIZE))) :
            i \in 1..Len(original) }, LAMBDA ends :
        CHOOSE x \in ends : \A y \in ends : U64Le(y, x))

---------------------------------------------------------------------------
(* PageAllocator *)

EntryIndexes == 0..(ENTRY_COUNT - 1)

\* PageAllocator::new: entry 0 is preoccupied
PageAllocator_new == [i \in EntryIndexes |-> i = 0]

\* a ProgramHeader; addresses and sizes are u64
ProgramHeader(ty, flags, offset, vaddr, paddr, filesz, memsz) ==
    [p_type |-> ty, p_flags |-> flags, p_offset |-> offset, p_vaddr |-> vaddr,
     p_paddr |-> paddr, p_filesz |-> filesz, p_memsz |-> memsz]

\* Page::p4_index (p0_index on aarch64): (number >> 27) & 0x1FF
p4_index(page) == page.top % ENTRY_COUNT

\* the indices whose windows of `num` entries are all unused, as
\* level_4_entries.windows(num).enumerate().filter(all unused) lists them
free_windows(entries, num) ==
    { idx \in 0..(ENTRY_COUNT - num) : \A i \in 0..(num - 1) : ~entries[idx + i] }

\* mutant: the window is handed out without being marked used
mark_window_forgotten(entries, idx, num) == entries

\* `for i in 0..num { self.level_4_entries[idx + i] = true; }`
mark_window(entries, idx, num) ==
    [i \in EntryIndexes |-> entries[i] \/ (idx <= i /\ i < idx + num)]

Min(S) == CHOOSE x \in S : \A y \in S : x <= y

\* PageAllocator::get_free_entries: slice::windows panics on a size of 0, and
\* the expect panics when no window is free
get_free_entries(entries, num) ==
    IF num = 0
    THEN [panic |-> "window size must be non-zero", idx |-> 0, entries |-> entries]
    ELSE IF free_windows(entries, num) = {}
    THEN [panic |-> "no usable level 4 entries found", idx |-> 0, entries |-> entries]
    ELSE LET idx == Min(free_windows(entries, num))
         IN  [panic |-> "", idx |-> idx, entries |-> mark_window(entries, idx, num)]

\* (len + (LEVEL_4_SIZE - 1)) / LEVEL_4_SIZE with LEVEL_4_SIZE = 4096 * 512^3 = 2^39:
\* the top limb of the sum (len is kept below 2^64 - 2^39, where the sum fits)
num_level_4_entries(len) ==
    LET o == len.off + (PAGE_SIZE - 1)
        m == len.mid + (MidSize - 1) + (o \div PAGE_SIZE)
    IN  len.top + (m \div MidSize)

\* the start address of the window at top-level index idx:
\* x86_64: Page::from_page_table_indices_1gib(idx, 0).start_address().into()
\* aarch64: address.set_bits(39..47, idx), which panics when idx needs a ninth
\*          bit, then VirtualAddress::new(address).expect(..)
window_address(a, idx) ==
    IF a = "x86_64"
    THEN [panic |-> "", address |-> VirtualAddress_new_canonical(a, U64(idx, 0, 0))]
    ELSE IF idx >= ENTRY_COUNT \div 2
    THEN [panic |-> "value does not fit into bit range", address |-> U64Zero]
    ELSE [panic |-> "", address |-> U64(idx, 0, 0)]

\* PageAllocator::get_free_address
get_free_address(a, entries, len) ==
    Let(get_free_entries(entries, num_level_4_entries(len)), LAMBDA e :
    Let(window_address(a, e.idx), LAMBDA w :
        IF e.panic # "" THEN [panic |-> e.panic, address |-> U64Zero, entries |-> e.entries]
        ELSE [panic |-> w.panic, address |-> w.address, entries |-> e.entries]))

\* mutant: only the entry of the segment's first page is marked
mark_segment_as_used_first_entry_only(a, entries, segment) ==
    LET start_page == containing_address(VirtualAddress_new_canonical(a, segment.p_vaddr))
    IN  [i \in EntryIndexes |-> entries[i] \/ i = p4_index(start_page)]

\* PageAllocator::mark_segment_as_used
mark_segment_as_used(a, entries, segment) ==
    LET start              == VirtualAddress_new_canonical(a, segment.p_vaddr)
        end_inclusive      == VirtualAddress_sub(a, VirtualAddress_add(a, start, segment.p_memsz),
                                                 FromInt(1))
        start_page         == containing_address(start)
        end_page_inclusive == containing_address(end_inclusive)
    IN  [i \in EntryIndexes |->
            entries[i] \/ (p4_index(start_page) <= i /\ i <= p4_index(end_page_inclusive))]

IdlePA ==
    /\ level_4_entries = PageAllocator_new
    /\ windows = <<>>
    /\ marked = <<>>

\* the history entry of a get_free_address call that returned
Window(len, address) == [len |-> len, address |-> address, after |-> marked]

---------------------------------------------------------------------------
(* Page-table entries and flags.  An entry is kept as its output frame and the
   set of its flag bit positions: the address bits 12..51 and the flag bits
   never meet, so `address | flags` is the pair. *)

\* x86_64::structures::paging::PageTableFlags, re-exported as PteFlags
PRESENT == {0}
WRITABLE == {1}
USER_ACCESSIBLE == {2}
NO_EXECUTE == {63}

\* aarch64 PteFlags
PteFlags_new == {}

PteFlags_present(flags, enable) == IF enable THEN flags \cup {0} ELSE flags \ {0}

PteFlags_page_descriptor(flags, enable) == IF enable THEN flags \cup {1} ELSE flags \ {1}

PteFlags_writable(flags, enable) == IF enable THEN flags \ {7} ELSE flags \cup {7}

PteFlags_no_execute(flags, enable) ==
    IF enable THEN flags \cup {53, 54} ELSE flags \ {53, 54}

\* the bits of the literal 0x70f
BITS_0x70f == {0, 1, 2, 3, 8, 9, 10}

\* aarch64 PageTableEntry::set: the flags argument is not used
PageTableEntry_set(frame, flags) == [frame |-> frame, flags |-> BITS_0x70f]

\* x86_64 PageTableEntry::set_frame
PageTableEntry_set_frame(frame, flags) == [frame |-> frame, flags |-> flags]

ZeroedTable == [i \in {} |-> 0]

\* PageTableEntry::is_unused: the whole entry is 0
is_unused(table, index) ==
    \/ index \notin DOMAIN table
    \/ (table[index].frame = Chunk(0, 0) /\ table[index].flags = {})

WriteEntry(table, index, entry) ==
    [i \in DOMAIN table \cup {index} |-> IF i = index THEN entry ELSE table[i]]

\* writing a whole table into the frame
WriteTable(tbls, frame, table) ==
    [f \in DOMAIN tbls \cup {frame} |-> IF f = frame THEN table ELSE tbls[f]]

\* Page::p3_index .. p1_index of src/src/memory.rs (p1 .. p3 on aarch64)
p3_index(page) == (page.mid \div (ENTRY_COUNT * ENTRY_COUNT)) % ENTRY_COUNT

p2_index(page) == (page.mid \div ENTRY_COUNT) % ENTRY_COUNT

p1_index(page) == page.mid % ENTRY_COUNT

---------------------------------------------------------------------------
(* Memory: the page allocator, the frame allocator and the mapper, threaded
   through an operation as one record *)

Memory ==
    [map |-> memory_map, pos |-> memory_map_pos, cur |-> current_descriptor,
     nf |-> next_frame, returned |-> returned, last_alloc |-> last_alloc,
     entries |-> level_4_entries, windows |-> windows, marked |-> marked,
     root |-> root, tables |-> tables, log |-> log, panic |-> halted]

\* the operation's result becomes the next state
SetMemory(m) ==
    /\ memory_map_pos' = m.pos
    /\ current_descriptor' = m.cur
    /\ next_frame' = m.nf
    /\ returned' = m.returned
    /\ last_alloc' = m.last_alloc
    /\ level_4_entries' = m.entries
    /\ windows' = m.windows
    /\ marked' = m.marked
    /\ root' = m.root
    /\ tables' = m.tables
    /\ log' = m.log
    /\ halted' = m.panic
    /\ UNCHANGED <<arch, memory_map>>

Panic(m, message) == [m EXCEPT !.panic = IF m.panic = "" THEN message ELSE m.panic]

\* frame_allocator.allocate_frame() on the Memory record: [m, frame]
Memory_allocate_frame(a, m) ==
    Let(allocate_frame(a, m.map, m.pos, m.cur, m.nf), LAMBDA r :
        [frame |-> r.frame,
         m |-> [m EXCEPT !.pos = r.pos, !.cur = r.current, !.nf = r.next_frame,
                         !.last_alloc = IF r.frame = None THEN "None" ELSE "Some",
                         !.returned = IF r.frame = None THEN m.returned
                                      ELSE Append(m.returned,
                                                  [frame |-> r.frame[1], from |-> r.current])]])

\* the state of Memory::new before Mapper::new has run
FreshMemory(a, map) ==
    [map |-> map, pos |-> 0, cur |-> 0, nf |-> FrameAllocator_new_start_frame(a),
     returned |-> <<>>, last_alloc |-> "none yet",
     entries |-> PageAllocator_new, windows |-> <<>>, marked |-> <<>>,
     root |-> None, tables |-> [f \in {} |-> ZeroedTable], log |-> <<>>, panic |-> ""]

\* the variables hold the record
InitMemory(m) ==
    /\ memory_map = m.map
    /\ memory_map_pos = m.pos
    /\ current_descriptor = m.cur
    /\ next_frame = m.nf
    /\ returned = m.returned
    /\ last_alloc = m.last_alloc
    /\ level_4_entries = m.entries
    /\ windows = m.windows
    /\ marked = m.marked
    /\ root = m.root
    /\ tables = m.tables
    /\ log = m.log
    /\ halted = m.panic

\* Mapper::new: a frame for the root table, zeroed; unwrap/expect on None
Mapper_new(a, m) ==
    Let(Memory_allocate_frame(a, m), LAMBDA r :
        IF r.frame = None THEN Panic(r.m, "failed to allocate frame for page table")
        ELSE [r.m EXCEPT !.root = r.frame,
                         !.tables = WriteTable(r.m.tables, r.frame[1], ZeroedTable)])

\* mutant: the new table is linked as the allocator handed it out, holding
\* what the frame held before
aarch64_create_next_table_not_zeroed(a, m, table, index, page_table_flags) ==
    IF m.panic # "" THEN [m |-> m, next |-> table]
    ELSE IF is_unused(m.tables[table], index)
    THEN Let(Memory_allocate_frame(a, m), LAMBDA r :
             IF r.frame = None
             THEN [m |-> Panic(r.m, "failed to allocate frame for page table"), next |-> table]
             ELSE Let(WriteTable(r.m.tables, r.frame[1],
                                 WriteEntry(ZeroedTable, ENTRY_COUNT - 1,
                                            PageTableEntry_set(FrameNo(1), {}))),
                  LAMBDA stale :
                  [m |-> [r.m EXCEPT !.tables =
                            WriteTable(stale, table,
                                WriteEntry(stale[table], index,
                                           PageTableEntry_set(r.frame[1], page_table_flags)))],
                   next |-> r.frame[1]]))
    ELSE [m |-> m, next |-> m.tables[table][index].frame]

\* aarch64 PageTable::create_next_table on the table in frame `table`: [m, next]
aarch64_create_next_table(a, m, table, index, page_table_flags) ==
    IF m.panic # "" THEN [m |-> m, next |-> table]
    ELSE IF is_unused(m.tables[table], index)
    THEN Let(Memory_allocate_frame(a, m), LAMBDA r :
             IF r.frame = None
             THEN [m |-> Panic(r.m, "failed to allocate frame for page table"), next |-> table]
             ELSE Let(WriteTable(r.m.tables, r.frame[1], ZeroedTable), LAMBDA zeroed :
                  [m |-> [r.m EXCEPT !.tables =
                            WriteTable(zeroed, table,
                                WriteEntry(zeroed[table], index,
                                           PageTableEntry_set(r.frame[1], page_table_flags)))],
                   next |-> r.frame[1]]))
    ELSE [m |-> m, next |-> m.tables[table][index].frame]

\* aarch64 Mapper::map
aarch64_map(a, m, page, frame, flags) ==
    LET page_table_flags ==
            PteFlags_no_execute(PteFlags_writable(PteFlags_page_descriptor(
                PteFlags_present(PteFlags_new, TRUE), TRUE), TRUE), TRUE)
    IN  Let(aarch64_create_next_table(a, m, m.root[1], p4_index(page), page_table_flags),
        LAMBDA l1 :
        Let(aarch64_create_next_table(a, l1.m, l1.next, p3_index(page), page_table_flags),
        LAMBDA l2 :
        Let(aarch64_create_next_table(a, l2.m, l2.next, p2_index(page), page_table_flags),
        LAMBDA l3 :
        IF l3.m.panic # "" THEN l3.m
        ELSE [l3.m EXCEPT !.tables =
                WriteTable(l3.m.tables, l3.next,
                    WriteEntry(l3.m.tables[l3.next], p1_index(page),
                        PageTableEntry_set(frame, PteFlags_page_descriptor(flags, TRUE))))])))

\* x86_64 crate, PageTableWalker::create_next_table as map_to drives it:
\* an unused entry gets a fresh zeroed table and the parent flags, a used one
\* has the parent flags or-ed in
x86_64_create_next_table(a, m, table, index, insert_flags) ==
    IF m.panic # "" THEN [m |-> m, next |-> table]
    ELSE IF is_unused(m.tables[table], index)
    THEN Let(Memory_allocate_frame(a, m), LAMBDA r :
             IF r.frame = None
             THEN [m |-> Panic(r.m, "FrameAllocationFailed"), next |-> table]
             ELSE IF 0 \notin insert_flags
             THEN [m |-> Panic(r.m, "entry should be mapped at this point"), next |-> table]
             ELSE [m |-> [r.m EXCEPT !.tables =
                            WriteTable(
                                WriteTable(r.m.tables, table,
                                    WriteEntry(r.m.tables[table], index,
                                        PageTableEntry_set_frame(r.frame[1], insert_flags))),
                                r.frame[1], ZeroedTable)],
                   next |-> r.frame[1]])
    ELSE LET entry == m.tables[table][index]
             flags == entry.flags \cup insert_flags
         IN  IF 0 \notin flags
             THEN [m |-> Panic(m, "entry should be mapped at this point"), next |-> table]
             ELSE [m |-> [m EXCEPT !.tables =
                            WriteTable(m.tables, table,
                                WriteEntry(m.tables[table], index,
                                           PageTableEntry_set_frame(entry.frame, flags)))],
                   next |-> entry.frame]

\* x86_64 Mapper::map: map_to(page, frame, flags, frame_allocator).unwrap().flush()
x86_64_map(a, m, page, frame, flags) ==
    LET parent_table_flags == flags \cap (PRESENT \cup WRITABLE \cup USER_ACCESSIBLE)
    IN  Let(x86_64_create_next_table(a, m, m.root[1], p4_index(page), parent_table_flags),
        LAMBDA p3 :
        Let(x86_64_create_next_table(a, p3.m, p3.next, p3_index(page), parent_table_flags),
        LAMBDA p2 :
        Let(x86_64_create_next_table(a, p2.m, p2.next, p2_index(page), parent_table_flags),
        LAMBDA p1 :
        IF p1.m.panic # "" THEN p1.m
        ELSE IF ~is_unused(p1.m.tables[p1.next], p1_index(page))
        THEN Panic(p1.m, "PageAlreadyMapped")
        ELSE [p1.m EXCEPT !.tables =
                WriteTable(p1.m.tables, p1.next,
                    WriteEntry(p1.m.tables[p1.next], p1_index(page),
                               PageTableEntry_set_frame(frame, flags)))])))

MapEvent(rt, page, frame, flags) ==
    [op |-> "map", root |-> rt, page |-> page, frame |-> frame, flags |-> flags]

\* Mapper::map of the architecture the bootloader is built for
Mapper_map(a, m, page, frame, flags) ==
    IF m.panic # "" THEN m
    ELSE [(IF a = "x86_64" THEN x86_64_map(a, m, page, frame, flags)
           ELSE aarch64_map(a, m, page, frame, flags))
          EXCEPT !.log = Append(m.log, MapEvent(m.root, page, frame, flags))]

IdleMapper ==
    /\ root = None
    /\ tables = [f \in {} |-> ZeroedTable]
    /\ log = <<>>

\* the hardware's walk from the root to the leaf entry of `page`: an entry
\* that is not present (bit 0) ends it
Fault == [present |-> FALSE, frame |-> Chunk(0, 0), flags |-> {}]

NextLevel(tbls, walk, index) ==
    IF ~walk.present \/ walk.frame \notin DOMAIN tbls THEN Fault
    ELSE IF is_unused(tbls[walk.frame], index) \/ 0 \notin tbls[walk.frame][index].flags
    THEN Fault
    ELSE [present |-> TRUE, frame |-> tbls[walk.frame][index].frame,
          flags |-> tbls[walk.frame][index].flags]

Walk(tbls, rt, page) ==
    IF rt = None THEN Fault
    ELSE NextLevel(tbls,
            NextLevel(tbls,
                NextLevel(tbls,
                    NextLevel(tbls, [present |-> TRUE, frame |-> rt[1], flags |-> {}],
                              p4_index(page)),
                    p3_index(page)),
                p2_index(page)),
            p1_index(page))

\* what an entry's bits permit, as the MMU reads them: x86_64 W is bit 1 and
\* NX bit 63; aarch64 AP[2] (bit 7) set is read-only, PXN/UXN are bits 53/54
EntryWritable(a, flags) == IF a = "x86_64" THEN 1 \in flags ELSE 7 \notin flags

EntryExecutable(a, flags) ==
    IF a = "x86_64" THEN 63 \notin flags ELSE ~({53, 54} \subseteq flags)

\* the flags a caller asks for, in the encoding of the architecture
RequestFlags(a, writable, no_execute) ==
    IF a = "x86_64"
    THEN PRESENT \cup (IF writable THEN WRITABLE ELSE {})
                 \cup (IF no_execute THEN NO_EXECUTE ELSE {})
    ELSE PteFlags_no_execute(PteFlags_writable(PteFlags_present(PteFlags_new, TRUE),
                                               writable), no_execute)

---------------------------------------------------------------------------
(* The loader and the lifecycle of main *)

IdleBoot ==
    /\ build = "none"
    /\ pc = "idle"
    /\ elf = <<>>
    /\ ph_index = 0
    /\ frame_buffer = None
    /\ boot_info_input = None
    /\ memory_writes = <<>>
    /\ loaded = <<>>
    /\ mappings = None
    /\ boot_info = None
    /\ context = None
    /\ system_table = None
    /\ services = "Boot"
    /\ firmware_calls = <<>>
    /\ instructions = <<>>
    /\ kernel_header = None
    /\ boot_info_writes = <<>>

\* no function is applied on its own
IdlePure ==
    /\ call = None
    /\ result = None

\* a usize below 2^31 as a number
ToInt(u) == u.mid * PAGE_SIZE + u.off

\* Memory::get_free_address: [m, address]
Memory_get_free_address(a, m, len) ==
    Let(get_free_address(a, m.entries, len), LAMBDA r :
        [address |-> r.address,
         m |-> IF m.panic # "" THEN m
               ELSE IF r.panic # "" THEN Panic([m EXCEPT !.entries = r.entries], r.panic)
               ELSE [m EXCEPT !.entries = r.entries,
                              !.windows = Append(m.windows,
                                  [len |-> len, address |-> r.address, after |-> m.marked])]])

MarkEvent(segment) == [op |-> "mark", segment |-> segment]

\* self.page_allocator.mark_segment_as_used(segment)
Memory_mark_segment_as_used(a, m, segment) ==
    IF m.panic # "" THEN m
    ELSE [m EXCEPT !.entries = mark_segment_as_used(a, m.entries, segment),
                   !.marked = Append(m.marked, segment),
                   !.log = Append(m.log, MarkEvent(segment))]

\* the number of chunks of start..=end, for ranges of a few chunks
ChunkCount(start, end) ==
    IF ChunkLt(end, start) THEN 0
    ELSE (end.top - start.top) * MidSize + end.mid - start.mid + 1

\* PageRange / FrameRange::new(start, end).into_iter(), as the sequence it yields
RangeInclusive(start, end) == [k \in 1..ChunkCount(start, end) |-> Chunk_add(start, k - 1)]

\* Iterator::zip: as long as the shorter of the two
Zip(xs, ys) ==
    [k \in 1..(IF Len(xs) <= Len(ys) THEN Len(xs) ELSE Len(ys)) |-> <<xs[k], ys[k]>>]

\* `for (page, frame) in pairs { mapper.map(page, frame, flags, ..) }`
RECURSIVE MapAll(_, _, _, _, _)
MapAll(a, m, pairs, k, flags) ==
    IF k > Len(pairs) THEN m
    ELSE MapAll(a, Mapper_map(a, m, pairs[k][1], pairs[k][2], flags), pairs, k + 1, flags)

\* the pages and the frames map_segment walks, given where the physical range starts
SegmentPages(a, segment) ==
    LET virtual_start         == VirtualAddress_new_canonical(a, segment.p_vaddr)
        virtual_end_inclusive == VirtualAddress_sub(a,
                                     VirtualAddress_add(a, virtual_start, segment.p_memsz),
                                     FromInt(1))
    IN  RangeInclusive(containing_address(virtual_start),
                       containing_address(virtual_end_inclusive))

SegmentFrames(a, segment, start) ==
    LET physical_start         == PhysicalAddress_new_canonical(a, start)
        physical_end_inclusive == PhysicalAddress_sub(a,
                                      PhysicalAddress_add(a, physical_start, segment.p_memsz),
                                      FromInt(1))
    IN  RangeInclusive(containing_address(physical_start),
                       containing_address(physical_end_inclusive))

\* Memory::map_segment of src/src/memory.rs
Memory_map_segment(a, m, segment, flags) ==
    LET marked_m == Memory_mark_segment_as_used(a, m, segment)
    IN  MapAll(a, marked_m,
               Zip(SegmentPages(a, segment), SegmentFrames(a, segment, segment.p_paddr)),
               1, flags)

\* the flags handle_load_segment / BootContext::map_segment derive from p_flags:
\* PRESENT, NO_EXECUTE unless bit 0 is set, WRITABLE if bit 1 is set
SegmentFlags(a, p_flags) == RequestFlags(a, (p_flags \div 2) % 2 = 1, p_flags % 2 = 0)

\* BootContext::map_segment of context.rs; `slice` is where the firmware put the
\* pages it allocated for the segment
BootContext_map_segment(a, m, segment, slice) ==
    LET marked_m == Memory_mark_segment_as_used(a, m, segment)
    IN  MapAll(a, marked_m,
               Zip(SegmentPages(a, segment), SegmentFrames(a, segment, slice)),
               1, SegmentFlags(a, segment.p_flags))

\* physical memory as the writes made to it
FileRead(at, len, from) == [kind |-> "file", at |-> at, len |-> len, from |-> from]

ZeroFill(at, len) == [kind |-> "zero", at |-> at, len |-> len, from |-> 0]

\* the byte of the kernel file at an offset: never 0, and different at
\* neighbouring offsets
FileByte(offset) == 1 + (offset % 251)

\* a byte nothing wrote
Garbage == -1

Max(S) == CHOOSE x \in S : \A y \in S : y <= x

ByteAt(writes, address) ==
    LET covering == { i \in 1..Len(writes) :
                        writes[i].at <= address /\ address < writes[i].at + writes[i].len }
    IN  IF covering = {} THEN Garbage
        ELSE LET w == writes[Max(covering)]
             IN  IF w.kind = "zero" THEN 0 ELSE FileByte(w.from + (address - w.at))

\* the last byte the model tells apart: a write of a wrapped length runs up
\* to it
MEMORY_END == 1073741824

\* the file read and write_bytes of handle_load_segment.  `p_memsz - p_filesz`
\* with p_filesz the larger panics with overflow checks, after the file was
\* read, and wraps to a length near 2^64 without
CopyAndZero(m, writes, segment, bss_start, overflow_checks) ==
    LET read == FileRead(ToInt(segment.p_paddr), ToInt(segment.p_filesz),
                         ToInt(segment.p_offset))
    IN  IF m.panic # "" THEN [m |-> m, writes |-> writes]
        ELSE IF ToInt(segment.p_filesz) <= ToInt(segment.p_memsz)
        THEN [m |-> m,
              writes |-> writes \o <<read, ZeroFill(bss_start, ToInt(segment.p_memsz)
                                                                  - ToInt(segment.p_filesz))>>]
        ELSE IF overflow_checks
        THEN [m |-> Panic(m, "attempt to subtract with overflow"), writes |-> Append(writes, read)]
        ELSE [m |-> m, writes |-> writes \o <<read, ZeroFill(bss_start, MEMORY_END - bss_start)>>]

\* Loader::handle_load_segment of uefi-bootloader/src/kernel.rs: [m, writes]
handle_load_segment(a, m, writes, segment, overflow_checks) ==
    CopyAndZero(Memory_map_segment(a, m, segment, SegmentFlags(a, segment.p_flags)),
                writes, segment, ToInt(segment.p_paddr) + ToInt(segment.p_filesz),
                overflow_checks)

\* Loader::handle_load_segment of src/src/kernel.rs: bss_start is taken from
\* p_offset
src_handle_load_segment(a, m, writes, segment, overflow_checks) ==
    CopyAndZero(Memory_map_segment(a, m, segment, SegmentFlags(a, segment.p_flags)),
                writes, segment, ToInt(segment.p_offset) + ToInt(segment.p_filesz),
                overflow_checks)

\* the context build: BootContext::map_segment, whose allocate_slice_inner
\* zeroes the p_memsz bytes the firmware allocated at `slice`
context_handle_load_segment(a, m, writes, segment, slice) ==
    Let(BootContext_map_segment(a, m, segment, slice), LAMBDA mapped :
        [m |-> mapped,
         writes |-> IF mapped.panic # "" THEN writes
                    ELSE Append(writes, ZeroFill(ToInt(slice), ToInt(segment.p_memsz)))])

\* const STACK_SIZE: usize = 18 * 4096
STACK_PAGES == 18

STACK_SIZE == FromInt(STACK_PAGES * PAGE_SIZE)

\* `for page in pages { let frame = allocate_frame().unwrap(); map(page, frame, flags) }`
RECURSIVE AllocateAndMapAll(_, _, _, _, _)
AllocateAndMapAll(a, m, pages, k, flags) ==
    IF k > Len(pages) \/ m.panic # "" THEN m
    ELSE Let(Memory_allocate_frame(a, m), LAMBDA r :
             IF r.frame = None
             THEN Panic(r.m, "unwrap on a None value")
             ELSE AllocateAndMapAll(a, Mapper_map(a, r.m, pages[k], r.frame[1], flags),
                                    pages, k + 1, flags))

\* input: the address of the context_switch function in the loaded bootloader image
CONTEXT_SWITCH == U64(0, 24576, 64)

\* x86_64 set_up_arch_specific_mappings: the recursive entry, at the P4 index
\* of 0o177777_776_000_000_000_0000, points to the P4 frame
RECURSIVE_INDEX == 510

x86_64_set_up_arch_specific_mappings(m) ==
    IF m.panic # "" THEN m
    ELSE [m EXCEPT !.tables =
            WriteTable(m.tables, m.root[1],
                WriteEntry(m.tables[m.root[1]], RECURSIVE_INDEX,
                           PageTableEntry_set_frame(m.root[1], PRESENT \cup WRITABLE)))]

\* the stack pages of set_up_mappings: (stack_start + 1)..=stack_end, and the top
StackEnd(a, stack_start_address) ==
    containing_address(VirtualAddress_sub(a,
        VirtualAddress_add(a, stack_start_address, STACK_SIZE), FromInt(1)))

StackPages(a, stack_start_address) ==
    RangeInclusive(Chunk_add(containing_address(stack_start_address), 1),
                   StackEnd(a, stack_start_address))

\* the frame buffer part of set_up_mappings of main.rs: [m, frame_buffer]
map_frame_buffer(a, m, fb) ==
    IF fb = None \/ m.panic # "" THEN [m |-> m, frame_buffer |-> None]
    ELSE Let(Memory_get_free_address(a, m, fb[1].size), LAMBDA g :
         LET start_page  == containing_address(g.address)
             end_page    == containing_address(VirtualAddress_sub(a,
                                VirtualAddress_add(a, g.address, fb[1].size), FromInt(1)))
             start_frame == containing_address(PhysicalAddress_new_canonical(a, fb[1].start))
             end_frame   == containing_address(PhysicalAddress_new_canonical(a,
                                U64(0, fb[1].start.mid + fb[1].size.mid
                                       + (fb[1].start.off + fb[1].size.off - 1) \div PAGE_SIZE,
                                    (fb[1].start.off + fb[1].size.off - 1) % PAGE_SIZE)))
         IN  IF g.m.panic # "" THEN [m |-> g.m, frame_buffer |-> None]
             ELSE [m |-> MapAll(a, g.m, Zip(RangeInclusive(start_page, end_page),
                                            RangeInclusive(start_frame, end_frame)),
                                1, PRESENT \cup WRITABLE),
                   frame_buffer |-> Some(g.address)])

\* set_up_mappings of main.rs: [m, mappings].  uefi-bootloader/src/main.rs ends
\* it with set_up_arch_specific_mappings, src/src/main.rs does not
set_up_mappings(a, m, fb, arch_specific) ==
    Let(Memory_get_free_address(a, m, STACK_SIZE), LAMBDA g :
    LET stack    == AllocateAndMapAll(a, g.m, StackPages(a, g.address), 1,
                                      PRESENT \cup WRITABLE)
        identity == Mapper_map(a, stack,
                               containing_address(VirtualAddress_new_canonical(a, CONTEXT_SWITCH)),
                               containing_address(PhysicalAddress_new_canonical(a, CONTEXT_SWITCH)),
                               PRESENT)
    IN  Let(map_frame_buffer(a, identity, fb), LAMBDA buffer :
        [m |-> IF arch_specific THEN x86_64_set_up_arch_specific_mappings(buffer.m)
               ELSE buffer.m,
         mappings |-> [stack_top |-> Page_start_address(a, Chunk_add(StackEnd(a, g.address), 1)),
                       frame_buffer |-> buffer.frame_buffer]]))

\* RuntimeContext::set_up_mappings of mappings.rs; the aarch64
\* set_up_arch_specific_mappings does nothing
context_set_up_mappings(a, m) ==
    Let(Memory_get_free_address(a, m, STACK_SIZE), LAMBDA g :
    LET stack    == AllocateAndMapAll(a, g.m, StackPages(a, g.address), 1,
                        PteFlags_no_execute(PteFlags_writable(
                            PteFlags_present(PteFlags_new, TRUE), TRUE), TRUE))
        identity == Mapper_map(a, stack,
                               containing_address(VirtualAddress_new_canonical(a, CONTEXT_SWITCH)),
                               containing_address(PhysicalAddress_new_canonical(a, CONTEXT_SWITCH)),
                               PteFlags_present(PteFlags_new, TRUE))
    IN  [m |-> identity,
         mappings |-> [stack_top |-> Page_start_address(a, Chunk_add(StackEnd(a, g.address), 1)),
                       frame_buffer |-> None]])

\* core::alloc::Layout of the boot information types (uefi_bootloader_api)
Layout(size, align) == [size |-> size, align |-> align]

BootInformationLayout == Layout(136, 8)

MemoryRegionLayout == Layout(24, 8)

ModuleLayout == Layout(80, 8)

ElfSectionLayout == Layout(88, 8)

\* Layout::array::<T>(n)
Layout_array(element, n) == Layout(element.size * n, element.align)

\* Layout::extend: [layout, offset]
Layout_extend(layout, next) ==
    LET offset == ((layout.size + next.align - 1) \div next.align) * next.align
    IN  [offset |-> offset,
         layout |-> Layout(offset + next.size,
                           IF layout.align >= next.align THEN layout.align ELSE next.align)]

\* the combined layout of the header and the three slices
CombinedLayout(memory_regions_count, modules_len, elf_sections_len) ==
    LET regions  == Layout_extend(BootInformationLayout,
                                  Layout_array(MemoryRegionLayout, memory_regions_count))
        modules  == Layout_extend(regions.layout, Layout_array(ModuleLayout, modules_len))
        sections == Layout_extend(modules.layout, Layout_array(ElfSectionLayout, elf_sections_len))
    IN  [size |-> sections.layout.size, memory_regions_offset |-> regions.offset,
         modules_offset |-> modules.offset, elf_sections_offset |-> sections.offset]

\* Memory::allocate_frames(n): allocate_frame n times, None unless every call
\* gave the frame after the one before: [m, frames]
RECURSIVE Memory_allocate_frames_from(_, _, _, _)
Memory_allocate_frames_from(a, m, n, frames) ==
    IF n = 0 THEN [m |-> m, frames |-> Some(frames)]
    ELSE Let(Memory_allocate_frame(a, m), LAMBDA r :
             IF r.frame = None THEN [m |-> r.m, frames |-> None]
             ELSE IF frames # <<>> /\ r.frame[1] # Chunk_add(frames[Len(frames)], 1)
             THEN [m |-> r.m, frames |-> None]
             ELSE Memory_allocate_frames_from(a, r.m, n - 1, Append(frames, r.frame[1])))

Memory_allocate_frames(a, m, n) == Memory_allocate_frames_from(a, m, n, <<>>)

\* the addresses of the header and of the three slices
BootInformationAt(a, address, layout, virtual) ==
    LET at(offset) == IF virtual THEN VirtualAddress_add(a, address, FromInt(offset))
                      ELSE PhysicalAddress_add(a, address, FromInt(offset))
    IN  [address        |-> address,
         size           |-> layout.size,
         memory_regions |-> at(layout.memory_regions_offset),
         modules        |-> at(layout.modules_offset),
         elf_sections   |-> at(layout.elf_sections_offset)]

\* allocate_boot_info of main.rs: [m, boot_info]
allocate_boot_info(a, m, memory_regions_count, modules_len, elf_sections_len) ==
    Let(CombinedLayout(memory_regions_count, modules_len, elf_sections_len),
    LAMBDA combined :
    Let(Memory_get_free_address(a, m, FromInt(combined.size)), LAMBDA g :
    Let(RangeInclusive(containing_address(g.address),
            containing_address(VirtualAddress_sub(a,
                VirtualAddress_add(a, g.address, FromInt(combined.size)), FromInt(1)))),
    LAMBDA pages :
    Let(Memory_allocate_frames(a, g.m, Len(pages)), LAMBDA f :
        IF g.m.panic # "" THEN [m |-> g.m, boot_info |-> None]
        ELSE IF f.frames = None
        THEN [m |-> Panic(f.m, "unwrap on a None value"), boot_info |-> None]
        ELSE [m |-> MapAll(a, f.m, Zip(pages, f.frames[1]), 1, PRESENT \cup WRITABLE),
              boot_info |-> Some(BootInformationAt(a, Frame_start_address(a, f.frames[1][1]),
                                                   combined, FALSE))]))))

\* `for page in pages { frame = allocate_frame().unwrap(); self.mapper.map(..);
\*  bootloader_page_tables.map(..) }` of create_boot_info
RECURSIVE MapInBoth(_, _, _, _, _, _)
MapInBoth(a, m, pages, k, flags, current) ==
    IF k > Len(pages) \/ m.panic # "" THEN m
    ELSE Let(Memory_allocate_frame(a, m), LAMBDA r :
             IF r.frame = None THEN Panic(r.m, "unwrap on a None value")
             ELSE LET own   == Mapper_map(a, r.m, pages[k], r.frame[1], flags)
                      other == Mapper_map(a, [own EXCEPT !.root = current],
                                          pages[k], r.frame[1], flags)
                  IN  MapInBoth(a, [other EXCEPT !.root = m.root], pages, k + 1, flags, current))

\* RuntimeContext::create_boot_info of boot_info.rs; `current` is the root
\* Mapper::current reads from TTBR0_EL1: [m, boot_info]
create_boot_info(a, m, modules_len, elf_sections_len, current) ==
    Let(CombinedLayout(Len(m.map), modules_len, elf_sections_len), LAMBDA combined :
    Let(Memory_get_free_address(a, m, FromInt(combined.size)), LAMBDA g :
    LET pages    == RangeInclusive(containing_address(g.address),
                        containing_address(VirtualAddress_sub(a,
                            VirtualAddress_add(a, g.address, FromInt(combined.size)),
                            FromInt(1))))
        flags    == PteFlags_writable(PteFlags_present(PteFlags_new, TRUE), TRUE)
    IN  Let(MapInBoth(a, g.m, pages, 1, flags, current), LAMBDA mapped :
        [m |-> mapped,
         boot_info |-> IF mapped.panic # "" THEN None
                       ELSE Some(BootInformationAt(a, g.address, combined, TRUE))])))

---------------------------------------------------------------------------
(* Specification SpecFA: one FrameAllocator over any small memory map *)

MaxDescriptors == 2

MaxPageCount == 3

\* Firmware descriptors start on a page boundary (UEFI: PhysicalStart is 4 KiB
\* aligned): just below, at and just above the low-memory limit.
DescriptorStarts ==
    { FromInt(LOW_MEMORY_LIMIT + k * PAGE_SIZE) : k \in -1..1 }

MemoryTypes == {CONVENTIONAL, "LOADER_DATA"}

Descriptors ==
    { MemoryDescriptor(ty, s, n) :
        ty \in MemoryTypes, s \in DescriptorStarts, n \in 0..MaxPageCount }

MemoryMaps == UNION { [1..n -> Descriptors] : n \in 1..MaxDescriptors }

InitFAWith(map) ==
    /\ memory_map = map
    /\ memory_map_pos = 0
    /\ current_descriptor = 0
    /\ next_frame = FrameAllocator_new_start_frame(arch)
    /\ returned = <<>>
    /\ last_alloc = "none yet"

InitFA ==
    /\ arch \in Archs
    /\ halted = ""
    /\ \E map \in MemoryMaps : InitFAWith(map)
    /\ IdlePA
    /\ IdleMapper
    /\ IdleBoot
    /\ IdlePure

\* one call of allocate_frame
AllocateFrame ==
    LET r == allocate_frame(arch, memory_map, memory_map_pos, current_descriptor, next_frame)
    IN  /\ memory_map_pos' = r.pos
        /\ current_descriptor' = r.current
        /\ next_frame' = r.next_frame
        /\ returned' = IF r.frame = None THEN returned
                       ELSE Append(returned, [frame |-> r.frame[1], from |-> r.current])
        /\ last_alloc' = IF r.frame = None THEN "None" ELSE "Some"
        /\ UNCHANGED <<arch, halted, memory_map, paVars, mapVars, bootVars, pureVars>>

NextFA == AllocateFrame

SpecFA == InitFA /\ [][NextFA]_vars

---------------------------------------------------------------------------
(* Claims about the FrameAllocator (SpecFA) *)

ReturnedFrames == { returned[i].frame : i \in 1..Len(returned) }

NoFrameReturnedTwice ==
    \A i, j \in 1..Len(returned) : i # j => returned[i].frame # returned[j].frame

\* C1: over any sequence of allocate_frame calls and any memory map (any order,
\* adjacent or overlapping descriptors) no two calls return the same frame, and
\* the watermark next_frame never decreases.
C1_NoFrameTwice_WatermarkMonotonic ==
    /\ []NoFrameReturnedTwice
    /\ [][ChunkLe(next_frame, next_frame')]_vars

DescriptorsOverlap(d, e) ==
    /\ d.page_count > 0 /\ e.page_count > 0
    /\ ChunkLe(descriptor_start_frame(arch, d), descriptor_end_frame(arch, e))
    /\ ChunkLe(descriptor_start_frame(arch, e), descriptor_end_frame(arch, d))

\* frames drawn from two overlapping conventional descriptors
C1_Witness ==
    /\ Len(memory_map) = 2
    /\ DescriptorsOverlap(memory_map[1], memory_map[2])
    /\ \E i, j \in 1..Len(returned) : returned[i].from = 1 /\ returned[j].from = 2

\* the byte range [phys_start, phys_start + page_count * 4096) of d holds frame f
FrameInsideDescriptor(f, d) ==
    LET first == ChunkAddress(f)
        limit == saturating_add(first, FromInt(PAGE_SIZE))
    IN  /\ U64Le(d.phys_start, first)
        /\ U64Le(limit, saturating_add(d.phys_start, FromInt(d.page_count * PAGE_SIZE)))

\* C2: every frame returned by an allocator built with FrameAllocator::new starts
\* at a physical address >= 0x10000 and lies inside the frame range of a
\* descriptor of type Conventional, the one it was drawn from; descriptors of
\* any other type never contribute a frame.
C2_FramesAboveLimitInsideConventional ==
    \A i \in 1..Len(returned) :
        /\ U64Le(FromInt(LOW_MEMORY_LIMIT), Frame_start_address(arch, returned[i].frame))
        /\ returned[i].from \in 1..Len(memory_map)
        /\ memory_map[returned[i].from].ty = CONVENTIONAL
        /\ FrameInsideDescriptor(returned[i].frame, memory_map[returned[i].from])

\* a frame was returned although the map starts with a non-conventional
\* descriptor that covers it and the conventional one reaches below 0x10000
C2_Witness ==
    /\ Len(memory_map) = 2
    /\ memory_map[1].ty # CONVENTIONAL
    /\ memory_map[2].ty = CONVENTIONAL
    /\ U64Lt(memory_map[2].phys_start, FromInt(LOW_MEMORY_LIMIT))
    /\ Len(returned) >= 1
    /\ FrameInsideDescriptor(returned[1].frame, memory_map[1])

\* descriptors the memory-map iterator has passed and that are not cached
Consumed(i) == i \in 1..memory_map_pos /\ i # current_descriptor

C24_LenAndMaxPhysAddrConstant ==
    /\ [](FrameAllocator_len = Len(memory_map))
    /\ [][/\ FrameAllocator_len' = FrameAllocator_len
          /\ max_phys_addr(arch, memory_map)' = max_phys_addr(arch, memory_map)]_vars

\* a map of two descriptors is exhausted after frames were handed out
C24_Witness ==
    /\ Len(memory_map) = 2
    /\ memory_map_pos = 2
    /\ last_alloc = "None"
    /\ Len(returned) >= 2

---------------------------------------------------------------------------
(* Specification SpecPA: one PageAllocator under any interleaving of its two
   operations *)

MaxPaOps == 3

\* 512 GiB, the size of a top-level entry
TOP_LEVEL_SIZE == U64(1, 0, 0)

\* lengths asked of get_free_address: 0, the 18-page stack, one byte more than an
\* entry, two entries
PaLens == { U64Zero, FromInt(18 * PAGE_SIZE), U64(1, 0, 1), U64(2, 0, 0) }

\* 0xFFFF_8000_0000_0000
KERNEL_BASE == U64(TopSize - ENTRY_COUNT \div 2, 0, 0)

\* segment start addresses: the kernel base, the last page of top-level entry 1,
\* inside the last page of entry 2
PaVaddrs == { KERNEL_BASE, U64(1, MidSize - 1, 0), U64(2, MidSize - 1, 16) }

\* segment sizes: one byte, two pages, one top-level entry
PaMemszs == { FromInt(1), FromInt(2 * PAGE_SIZE), TOP_LEVEL_SIZE }

\* and a segment that fills the top-level entries 1 to 255
PaSegments ==
    { ProgramHeader(1, 0, U64Zero, v, U64Zero, U64Zero, m) : v \in PaVaddrs, m \in PaMemszs }
        \cup { ProgramHeader(1, 0, U64Zero, U64(1, 0, 0), U64Zero, U64Zero,
                             U64(ENTRY_COUNT \div 2 - 1, 0, 0)) }

InitPA ==
    /\ arch \in Archs
    /\ halted = ""
    /\ InitFAWith(<<>>)
    /\ IdlePA
    /\ IdleMapper
    /\ IdleBoot
    /\ IdlePure

GetFreeAddress(len) ==
    /\ halted = ""
    /\ Len(windows) + Len(marked) < MaxPaOps
    /\ \E r \in { get_free_address(arch, level_4_entries, len) } :
           /\ level_4_entries' = r.entries
           /\ halted' = r.panic
           /\ windows' = IF r.panic = "" THEN Append(windows, Window(len, r.address))
                         ELSE windows
    /\ UNCHANGED <<arch, faVars, marked, mapVars, bootVars, pureVars>>

MarkSegmentAsUsed(segment) ==
    /\ halted = ""
    /\ Len(windows) + Len(marked) < MaxPaOps
    /\ level_4_entries' = mark_segment_as_used(arch, level_4_entries, segment)
    /\ marked' = Append(marked, segment)
    /\ UNCHANGED <<arch, halted, faVars, windows, mapVars, bootVars, pureVars>>

NextPA ==
    \/ \E len \in PaLens : GetFreeAddress(len)
    \/ \E segment \in PaSegments : MarkSegmentAsUsed(segment)

SpecPA == InitPA /\ [][NextPA]_vars

---------------------------------------------------------------------------
(* Claims about the PageAllocator *)

\* ceil(len / 512 GiB)
CeilTopLevel(len) == IF len.mid = 0 /\ len.off = 0 THEN len.top ELSE len.top + 1

\* the address ranges [V, V + ceil(L / 512 GiB) * 512 GiB) of two windows meet:
\* compared limb by limb; the end of a window is a multiple of 2^39 at most 2^64
WindowEnd(w) == U64(w.address.top + CeilTopLevel(w.len), w.address.mid, w.address.off)

WindowsOverlap(w, x) == U64Lt(w.address, WindowEnd(x)) /\ U64Lt(x.address, WindowEnd(w))

\* C6: after get_free_address(L) has returned V, no later get_free_address call
\* (any length, any interleaving with mark_segment_as_used) returns a window
\* that overlaps [V, V + ceil(L / 512 GiB) * 512 GiB).
C6_WindowsNeverOverlap ==
    \A i, j \in 1..Len(windows) : i < j => ~WindowsOverlap(windows[i], windows[j])

\* two windows were handed out with a segment marked in between, and the
\* first one is longer than one entry
C6_Witness ==
    /\ Len(windows) >= 2
    /\ CeilTopLevel(windows[1].len) = 2
    /\ windows[2].after # windows[1].after

\* the lowest index at which n entries are all unused, as a set: empty when
\* there is none
LowestWindow(entries, n) ==
    { i \in 0..(ENTRY_COUNT - n) :
         /\ \A k \in i..(i + n - 1) : ~entries[k]
         /\ \A j \in 0..(i - 1) : \E k \in j..(j + n - 1) : entries[k] }

\* C28: get_free_address(len) with n = ceil(len / 512 GiB) returns the address
\* whose top-level index is the lowest i such that entries i .. i+n-1 are all
\* unused and whose lower table indices and page offset are zero; it sets
\* exactly those n entries to used and changes no other entry; it never
\* returns an address in top-level entry 0
C28_FirstFitWindow ==
    [][\A len \in PaLens :
          (GetFreeAddress(len) /\ LowestWindow(level_4_entries, CeilTopLevel(len)) # {}) =>
              /\ halted' = ""
              /\ Len(windows') = Len(windows) + 1
              /\ \E i \in LowestWindow(level_4_entries, CeilTopLevel(len)) :
                    /\ i # 0
                    /\ windows'[Len(windows')].address.top % ENTRY_COUNT = i
                    /\ windows'[Len(windows')].address.mid = 0
                    /\ windows'[Len(windows')].address.off = 0
                    /\ level_4_entries' =
                           [k \in EntryIndexes |->
                               level_4_entries[k] \/ k \in i..(i + CeilTopLevel(len) - 1)]]_vars

\* what holds: that, of every call with a length above zero that finds its
\* window below the index 256 on aarch64
C28_FirstFitWhereItReturns ==
    [][\A len \in PaLens \ {U64Zero} :
          (/\ GetFreeAddress(len)
           /\ \E i \in LowestWindow(level_4_entries, CeilTopLevel(len)) :
                 arch = "aarch64" => i < ENTRY_COUNT \div 2) =>
              /\ halted' = ""
              /\ Len(windows') = Len(windows) + 1
              /\ \E i \in LowestWindow(level_4_entries, CeilTopLevel(len)) :
                    /\ i # 0
                    /\ windows'[Len(windows')].address.top % ENTRY_COUNT = i
                    /\ windows'[Len(windows')].address.mid = 0
                    /\ windows'[Len(windows')].address.off = 0
                    /\ level_4_entries' =
                           [k \in EntryIndexes |->
                               level_4_entries[k] \/ k \in i..(i + CeilTopLevel(len) - 1)]]_vars

---------------------------------------------------------------------------
(* Specification SpecMap: one Mapper over a fresh root, mapping any short
   sequence of pages *)

MaxMaps == 2

\* pages: the kernel base, its neighbour in the same level-1 table, one in
\* another level-1 table, and the identity page at 1 MiB
MapPages == { Chunk(TopSize - ENTRY_COUNT \div 2, 0), Chunk(TopSize - ENTRY_COUNT \div 2, 1),
              Chunk(TopSize - ENTRY_COUNT \div 2, ENTRY_COUNT), Chunk(0, 256) }

MapFrames == { FrameNo(256), FrameNo(1024) }

\* conventional memory from 0x10000: enough for every table, or too little
MapMemoryMaps ==
    { <<MemoryDescriptor(CONVENTIONAL, FromInt(LOW_MEMORY_LIMIT), n)>> : n \in {6, 32} }

InitMap ==
    /\ arch \in Archs
    /\ \E map \in MapMemoryMaps : InitMemory(Mapper_new(arch, FreshMemory(arch, map)))
    /\ IdleBoot
    /\ IdlePure

Map(page, frame, writable, no_execute) ==
    /\ halted = ""
    /\ Len(log) < MaxMaps
    /\ SetMemory(Mapper_map(arch, Memory, page, frame,
                            RequestFlags(arch, writable, no_execute)))
    /\ UNCHANGED <<bootVars, pureVars>>

NextMap ==
    \E page \in MapPages, frame \in MapFrames, writable \in BOOLEAN, no_execute \in BOOLEAN :
        Map(page, frame, writable, no_execute)

SpecMap == InitMap /\ [][NextMap]_vars

---------------------------------------------------------------------------
(* Claims about the Mapper *)

\* the bits of an entry that grant or deny access
PermissionBits(a) == IF a = "x86_64" THEN {1, 2, 63} ELSE {6, 7, 53, 54}

LastMap == log[Len(log)]

\* C4: after Mapper::map(page, frame, flags) has returned, the walk from the
\* root reaches a present leaf entry for the page whose output frame is the
\* frame and whose permission bits are exactly those of the requested flags,
\* on x86_64 and on aarch64.
C4_MapInstallsFrameAndFlags ==
    (halted = "" /\ log # <<>> /\ LastMap.op = "map") =>
        LET leaf == Walk(tables, root, LastMap.page)
        IN  /\ leaf.present
            /\ leaf.frame = LastMap.frame
            /\ leaf.flags \cap PermissionBits(arch) = LastMap.flags \cap PermissionBits(arch)

\* the same statement for the x86_64 build alone
C4_OnX86 == arch = "x86_64" => C4_MapInstallsFrameAndFlags

\* the frames of the tables at each level that the root reaches through
\* entries that are not unused: the root, then the tables below it
TablesAt(level) ==
    LET RECURSIVE Reached(_)
        Reached(l) ==
            IF l = 0 THEN { root[1] }
            ELSE { tables[t][i].frame : <<t, i>> \in
                     { <<t, i>> \in Reached(l - 1) \X EntryIndexes :
                         t \in DOMAIN tables /\ ~is_unused(tables[t], i) } }
    IN  Reached(level)

\* the index a page has in the table of a level, the root being level 0
IndexAt(level, page) ==
    CASE level = 0 -> p4_index(page)
      [] level = 1 -> p3_index(page)
      [] level = 2 -> p2_index(page)
      [] level = 3 -> p1_index(page)

Returned(k) == log[k].op = "map" /\ (k < Len(log) \/ halted = "")

\* C35: after any sequence of Mapper::map calls, every page that was
\* successfully mapped still translates to the frame and flags given by its
\* first map call: mapping another page never alters or drops an existing
\* mapping, and mapping an already-mapped page never silently replaces its
\* leaf entry (it halts instead), on both x86_64 and aarch64
C35_FirstMappingKept ==
    \A k \in 1..Len(log) :
        (Returned(k) /\ \A j \in 1..(k - 1) : log[j].page # log[k].page) =>
            /\ Walk(tables, root, log[k].page).present
            /\ Walk(tables, root, log[k].page).frame = log[k].frame
            /\ Walk(tables, root, log[k].page).flags \cap PermissionBits(arch)
                   = log[k].flags \cap PermissionBits(arch)
            /\ \A j \in (k + 1)..Len(log) : log[j].page = log[k].page => ~Returned(j)

\* what holds: that on x86_64; and on aarch64 the frame of a page that was
\* mapped once, whatever else was mapped
C35_KeptOnX86AndOfOtherPages ==
    /\ arch = "x86_64" => C35_FirstMappingKept
    /\ \A k \in 1..Len(log) :
          (Returned(k) /\ \A j \in 1..Len(log) : j # k => log[j].page # log[k].page) =>
              /\ Walk(tables, root, log[k].page).present
              /\ Walk(tables, root, log[k].page).frame = log[k].frame

---------------------------------------------------------------------------
(* Specification SpecBoot: main from Memory::new to the jump into the kernel,
   in each of the three revisions, over a handful of kernel files *)

Builds == {"src", "main", "context"}

\* the Memory revisions carry the x86_64 mapper, the context revision the
\* aarch64 one
ArchOf(b) == IF b = "context" THEN "aarch64" ELSE "x86_64"

BootMemoryPages == 64

BootMemoryMap == <<MemoryDescriptor(CONVENTIONAL, FromInt(LOW_MEMORY_LIMIT), BootMemoryPages)>>

\* a memory map whose conventional memory starts two frames below 1 MiB, the
\* physical address the kernel files ask to be loaded at
KernelMemoryMap == <<MemoryDescriptor(CONVENTIONAL, U64(0, 254, 0), BootMemoryPages)>>

BootMemoryMaps == { BootMemoryMap, KernelMemoryMap }

\* the root TTBR0_EL1 holds while boot services run
FIRMWARE_ROOT == FrameNo(32512)

THESEUS_ASID == 0

KernelTop == TopSize - ENTRY_COUNT \div 2

Text == ProgramHeader(1, 5, FromInt(4096), U64(KernelTop, 256, 0), U64(0, 256, 0),
                            FromInt(32), FromInt(32))

DataBss == ProgramHeader(1, 6, FromInt(8192), U64(KernelTop, 258, 0), U64(0, 258, 0),
                            FromInt(PAGE_SIZE), FromInt(2 * PAGE_SIZE))

Rwx == ProgramHeader(1, 7, FromInt(4096), U64(KernelTop, 256, 0), U64(0, 256, 0),
                            FromInt(16), FromInt(48))

Misaligned == ProgramHeader(1, 4, FromInt(4096), U64(KernelTop, 256, 4080), U64(0, 256, 0),
                            FromInt(32), FromInt(32))

SameOffset == ProgramHeader(1, 4, FromInt(4096), U64(KernelTop, 256, 4080), U64(0, 256, 4080),
                            FromInt(32), FromInt(32))

Low == ProgramHeader(1, 5, FromInt(4096), U64(1, 0, 0), U64(0, 512, 0),
                            FromInt(32), FromInt(32))

Crossing == ProgramHeader(1, 6, FromInt(4096), U64(1, MidSize - 1, 0), U64(0, 1536, 0),
                            FromInt(32), FromInt(2 * PAGE_SIZE))

Tls == ProgramHeader(7, 4, FromInt(4096), U64(KernelTop, 300, 0), U64(0, 300, 0),
                            FromInt(8), FromInt(8))

EmptyLoad == ProgramHeader(1, 4, FromInt(4096), U64(KernelTop, 301, 0), U64(0, 301, 0),
                            U64Zero, U64Zero)

\* a PT_NULL and a PT_NOTE header that declare a size in memory
Null == ProgramHeader(0, 0, U64Zero, U64Zero, U64Zero, U64Zero, FromInt(8))

Note == ProgramHeader(4, 4, FromInt(4096), U64(KernelTop, 302, 0), U64(0, 302, 0),
                            FromInt(8), FromInt(8))

\* a segment whose size in the file is larger than its size in memory
Oversized == ProgramHeader(1, 6, FromInt(4096), U64(KernelTop, 256, 0), U64(0, 256, 0),
                            FromInt(48), FromInt(16))

\* a segment linked into the top-level entry 510, at 0xFFFF_FF00_0010_0000
Recursive == ProgramHeader(1, 5, FromInt(4096), U64(TopSize - 2, 256, 0), U64(0, 256, 0),
                            FromInt(32), FromInt(32))

BootElfs == { <<Text>>, <<Text, DataBss>>, <<Rwx>>, <<Misaligned>>, <<SameOffset>>,
              <<Tls, EmptyLoad, Text>>, <<Low, DataBss>>, <<Crossing>>, <<Null, Note, Text>>,
              <<Oversized>>, <<Recursive>> }

\* what the firmware's GraphicsOutput protocol reports, None without one
BootFrameBuffers ==
    { None,
      Some([start |-> U64(0, 524288, 0), size |-> FromInt(3 * PAGE_SIZE), pixel_format |-> "Rgb"]),
      Some([start |-> U64(0, 524288, 0), size |-> FromInt(3 * PAGE_SIZE),
            pixel_format |-> "Bitmask"]) }

BootInfoInputs ==
    { [memory_regions_count |-> 40, modules_len |-> 0, elf_sections_len |-> 3],
      [memory_regions_count |-> 160, modules_len |-> 2, elf_sections_len |-> 3] }

\* where AllocateType::AnyPages may put a segment
FirmwarePages == { U64(0, 768, 0), U64(0, 1024, 0) }

\* goblin's Header, the two sizes it declares: those of an ELF64 file, and
\* files that declare another header size or program header entry size
Header(e_ehsize, e_phentsize) == [e_ehsize |-> e_ehsize, e_phentsize |-> e_phentsize]

KernelHeaders == { Header(64, 56), Header(52, 56), Header(64, 32) }

\* the writes into the boot information a step of main makes, in order, each
\* with the state of the firmware.  src/src/main.rs zeroes the memory regions
\* and hands them to exit_boot_services as the buffer of the final memory map,
\* and writes the rest after it returned; src/uefi-bootloader/src/main.rs
\* writes all four after it returned; create_boot_info writes all four
write_boot_info(b, step, firmware) ==
    LET Write(parts) == [k \in 1..Len(parts) |-> [part |-> parts[k], services |-> firmware]]
    IN  CASE b = "src" /\ step = "exit_boot_services" -> Write(<<"memory_regions">>)
          [] b = "src" /\ step = "handoff" -> Write(<<"modules", "elf_sections", "header">>)
          [] b = "main" /\ step = "handoff" ->
                 Write(<<"memory_regions", "modules", "elf_sections", "header">>)
          [] b = "context" /\ step = "boot_info" ->
                 Write(<<"memory_regions", "modules", "elf_sections", "header">>)
          [] OTHER -> <<>>

\* the firmware has started the image: nothing of main has run
InitBoot ==
    /\ build \in Builds
    /\ arch = ArchOf(build)
    /\ \E map \in BootMemoryMaps :
           InitMemory([FreshMemory(arch, map) EXCEPT
                          !.tables = IF build = "context"
                                     THEN WriteTable(@, FIRMWARE_ROOT, ZeroedTable) ELSE @])
    /\ pc = "start"
    /\ elf \in BootElfs
    /\ ph_index = 0
    /\ frame_buffer \in BootFrameBuffers
    /\ boot_info_input \in BootInfoInputs
    /\ memory_writes = <<>>
    /\ loaded = <<>>
    /\ mappings = None
    /\ boot_info = None
    /\ context = None
    /\ system_table = None
    /\ services = "Boot"
    /\ firmware_calls = <<>>
    /\ instructions = <<>>
    /\ kernel_header \in KernelHeaders
    /\ boot_info_writes = <<>>
    /\ call = None
    /\ result = None

\* the firmware services a step invokes, in the state the firmware is in
Invoke(calls, state) == [k \in 1..Len(calls) |-> [service |-> calls[k], state |-> state]]

\* mutant: the panic handler prints to the firmware's stdout whatever
\* SYSTEM_TABLE holds
panic_prints_always(st) == <<"stdout">>

\* #[panic_handler]: `if let Some(..) = SYSTEM_TABLE { writeln!(stdout, ..) }`,
\* then the logger and the halt loop
panic(st) == IF st # None THEN <<"stdout">> ELSE <<>>

\* the history after a step that invoked `calls` in the state `before` and
\* ended in the state `after`, the panic handler running if it panicked
AfterCalls(calls, before, after, st, panicked) ==
    firmware_calls \o Invoke(calls, before)
                   \o (IF panicked # "" THEN Invoke(panic(st), after) ELSE <<>>)

\* get_frame_buffer: a pixel format other than Rgb and Bgr panics
get_frame_buffer(gop) ==
    IF gop # None /\ gop[1].pixel_format \notin {"Rgb", "Bgr"}
    THEN "Bitmask and BltOnly framebuffers are not supported"
    ELSE ""

\* the order of the steps of main
NextPc(b, step) ==
    IF b = "context"
    THEN CASE step = "load"               -> "exit_boot_services"
           [] step = "exit_boot_services" -> "set_up_mappings"
           [] step = "set_up_mappings"    -> "boot_info"
           [] step = "boot_info"          -> "handoff"
           [] step = "handoff"            -> "kernel"
    ELSE CASE step = "load"               -> "set_up_mappings"
           [] step = "set_up_mappings"    -> "boot_info"
           [] step = "boot_info"          -> "exit_boot_services"
           [] step = "exit_boot_services" -> "handoff"
           [] step = "handoff"            -> "kernel"

AfterHeader == IF ph_index + 1 = Len(elf) THEN NextPc(build, "load") ELSE "load"

\* main up to Memory::new (BootContext::new): SYSTEM_TABLE is Some while stdout
\* is cleared and the frame buffer is looked up, and None from then on
Start ==
    /\ halted = "" /\ pc = "start"
    /\ \E failed \in { get_frame_buffer(frame_buffer) } :
          IF failed # ""
          THEN /\ system_table' = Some("system table")
               /\ halted' = failed
               /\ firmware_calls' = AfterCalls(<<"stdout", "protocol">>, services, services,
                                               system_table', failed)
               /\ UNCHANGED <<pc, faVars, paVars, mapVars>>
          ELSE /\ system_table' = None
               /\ pc' = "load"
               /\ \E m \in { Mapper_new(arch, Memory) } :
                     /\ SetMemory(m)
                     /\ firmware_calls' =
                            AfterCalls(<<"stdout", "protocol", "memory_map">>, services, services,
                                       system_table', m.panic)
    /\ UNCHANGED <<arch, memory_map, build, pureVars, instructions, kernel_header, boot_info_writes, elf, ph_index, frame_buffer, boot_info_input,
                   memory_writes, loaded, mappings, boot_info, context, services>>

\* mutant: a header that is not a LOAD segment ends the loader, as the todo!()
\* arms of a type dispatch do
SkipProgramHeader_todo ==
    /\ halted = "" /\ pc = "load"
    /\ elf[ph_index + 1].p_memsz = U64Zero \/ elf[ph_index + 1].p_type # 1
    /\ halted' = "not yet implemented"
    /\ firmware_calls' = AfterCalls(<<"file">>, services, services, system_table, halted')
    /\ UNCHANGED <<arch, faVars, paVars, mapVars, build, pureVars, instructions, kernel_header,
                   boot_info_writes, elf, ph_index, pc, frame_buffer, boot_info_input,
                   memory_writes, loaded, mappings, boot_info, context, system_table, services>>

\* one round of the loop of Loader::load over a header it skips
SkipProgramHeader ==
    /\ halted = "" /\ pc = "load"
    /\ elf[ph_index + 1].p_memsz = U64Zero \/ elf[ph_index + 1].p_type # 1
    /\ ph_index' = ph_index + 1
    /\ pc' = AfterHeader
    /\ firmware_calls' = AfterCalls(<<"file">>, services, services, system_table, "")
    /\ UNCHANGED <<arch, halted, faVars, paVars, mapVars, build, pureVars, instructions, kernel_header, boot_info_writes, elf, frame_buffer,
                   boot_info_input, memory_writes, loaded, mappings, boot_info, context,
                   system_table, services>>

\* one round of the loop of Loader::load over a LOAD segment
LoadSegment ==
    /\ halted = "" /\ pc = "load"
    /\ elf[ph_index + 1].p_memsz # U64Zero /\ elf[ph_index + 1].p_type = 1
    /\ LET segment == elf[ph_index + 1]
       IN  \E slice \in (IF build # "context" THEN {segment.p_paddr}
                         ELSE IF segment.p_paddr = U64(0, 256, 0) THEN {segment.p_paddr}
                         ELSE FirmwarePages) :
              \E r \in { IF build = "main"
                          THEN handle_load_segment(arch, Memory, memory_writes, segment,
                                                   overflow_checks)
                          ELSE IF build = "src"
                          THEN src_handle_load_segment(arch, Memory, memory_writes, segment,
                                                       overflow_checks)
                          ELSE context_handle_load_segment(arch, Memory, memory_writes,
                                                           segment, slice) :
                            overflow_checks \in BOOLEAN } :
                  /\ SetMemory(r.m)
                  /\ memory_writes' = r.writes
                  /\ loaded' = Append(loaded, [segment |-> segment, physical_start |-> slice])
                  /\ firmware_calls' =
                         AfterCalls(IF build = "context" THEN <<"file", "allocate_pages">>
                                    ELSE <<"file">>,
                                    services, services, system_table, r.m.panic)
    /\ ph_index' = ph_index + 1
    /\ pc' = AfterHeader
    /\ UNCHANGED <<build, pureVars, instructions, kernel_header, boot_info_writes, elf, frame_buffer, boot_info_input, mappings, boot_info, context,
                   system_table, services>>

\* system_table.exit_boot_services / BootContext::exit_boot_services
ExitBootServices ==
    /\ halted = "" /\ pc = "exit_boot_services"
    /\ pc' = NextPc(build, pc)
    /\ boot_info_writes' = boot_info_writes \o write_boot_info(build, pc, services)
    /\ services' = "Runtime"
    /\ firmware_calls' =
           AfterCalls(IF build = "context"
                      THEN <<"memory_map_size", "allocate_pages", "exit_boot_services">>
                      ELSE <<"exit_boot_services">>,
                      services, services', system_table, "")
    /\ UNCHANGED <<arch, halted, faVars, paVars, mapVars, build, pureVars, instructions, kernel_header, elf, ph_index, frame_buffer,
                   boot_info_input, memory_writes, loaded, mappings, boot_info, context,
                   system_table>>

SetUpMappings ==
    /\ halted = "" /\ pc = "set_up_mappings"
    /\ \E r \in { IF build = "context" THEN context_set_up_mappings(arch, Memory)
                   ELSE set_up_mappings(arch, Memory, frame_buffer, build = "main") } :
           /\ SetMemory(r.m)
           /\ mappings' = Some(r.mappings)
           /\ firmware_calls' = AfterCalls(<<>>, services, services, system_table, r.m.panic)
    /\ pc' = NextPc(build, pc)
    /\ UNCHANGED <<build, pureVars, instructions, kernel_header, boot_info_writes, elf, ph_index, frame_buffer, boot_info_input, memory_writes,
                   loaded, boot_info, context, system_table, services>>

\* allocate_boot_info of main.rs, create_boot_info of boot_info.rs
AllocateBootInfo ==
    /\ halted = "" /\ pc = "boot_info"
    /\ \E r \in { IF build = "context"
                   THEN create_boot_info(arch, Memory, boot_info_input.modules_len,
                                         boot_info_input.elf_sections_len, Some(FIRMWARE_ROOT))
                   ELSE allocate_boot_info(arch, Memory, boot_info_input.memory_regions_count,
                                           boot_info_input.modules_len,
                                           boot_info_input.elf_sections_len) } :
           /\ SetMemory(r.m)
           /\ boot_info' = r.boot_info
           /\ boot_info_writes' =
                  IF r.m.panic = ""
                  THEN boot_info_writes \o write_boot_info(build, pc, services)
                  ELSE boot_info_writes
           /\ firmware_calls' =
                  AfterCalls(IF build = "context" THEN <<>>
                             ELSE <<"memory_map_size", "allocate_pages">>,
                             services, services, system_table, r.m.panic)
    /\ pc' = NextPc(build, pc)
    /\ UNCHANGED <<build, pureVars, instructions, kernel_header, elf, ph_index, frame_buffer, boot_info_input, memory_writes,
                   loaded, mappings, context, system_table, services>>

Instruction(op, operands) == [op |-> op, operands |-> operands]

\* aarch64: set_as_active_page_table_root, configure_translation_registers,
\* enable_mmu and `br`; x86_64: `mov cr3, {}; mov rsp, {}; jmp {}`
context_switch(a, c) ==
    IF a = "aarch64"
    THEN << Instruction("msr TTBR0_EL1", <<[ASID |-> THESEUS_ASID, root |-> c.page_table]>>),
            Instruction("isb", <<>>),
            Instruction("msr MAIR_EL1", <<>>),
            Instruction("msr TCR_EL1", <<>>),
            Instruction("isb", <<>>),
            Instruction("msr SCTLR_EL1", <<[M |-> "Enable"]>>),
            Instruction("isb", <<>>),
            Instruction("br", <<[target |-> c.entry_point, x0 |-> c.boot_info]>>) >>
    ELSE << Instruction("mov cr3", <<c.page_table>>),
            Instruction("mov rsp", <<c.stack_top>>),
            Instruction("jmp", <<[target |-> c.entry_point, rdi |-> c.boot_info]>>) >>

\* the Context and context_switch / jump_to_kernel; the entry point of the
\* kernel files here is the start of their first header.  In src/src/main.rs
\* the entry point is todo!(), which panics
Handoff ==
    /\ pc = "handoff" /\ halted = ""
    /\ IF build = "src"
       THEN /\ halted' = "not yet implemented"
            /\ firmware_calls' = AfterCalls(<<>>, services, services, system_table, halted')
            /\ UNCHANGED <<pc, context, instructions>>
       ELSE /\ context' = Some([page_table  |-> root[1],
                                stack_top   |-> mappings[1].stack_top,
                                entry_point |-> VirtualAddress_new_canonical(arch, elf[1].p_vaddr),
                                boot_info   |-> boot_info[1].address])
            /\ instructions' = context_switch(arch, context'[1])
            /\ pc' = NextPc(build, pc)
            /\ UNCHANGED <<halted, firmware_calls>>
    /\ boot_info_writes' = boot_info_writes \o write_boot_info(build, "handoff", services)
    /\ UNCHANGED <<arch, faVars, paVars, mapVars, build, pureVars, kernel_header, elf, ph_index,
                   frame_buffer, boot_info_input, memory_writes, loaded, mappings, boot_info,
                   system_table, services>>

NextBoot ==
    \/ Start
    \/ SkipProgramHeader
    \/ LoadSegment
    \/ ExitBootServices
    \/ SetUpMappings
    \/ AllocateBootInfo
    \/ Handoff

SpecBoot == InitBoot /\ [][NextBoot]_vars

---------------------------------------------------------------------------
(* Claims about the loader and the new page table *)

\* the entries the walk can end in: every path of four present entries from
\* the root, the recursive entry included
PresentEntries(tbls, frames) ==
    UNION { { tbls[f][i] : i \in { j \in DOMAIN tbls[f] : 0 \in tbls[f][j].flags } } :
            f \in frames \cap DOMAIN tbls }

EntryFrames(entries) == { e.frame : e \in entries }

LeafEntries(tbls, rt) ==
    IF rt = None THEN {}
    ELSE PresentEntries(tbls, EntryFrames(
            PresentEntries(tbls, EntryFrames(
                PresentEntries(tbls, EntryFrames(
                    PresentEntries(tbls, {rt[1]})))))))

\* C5: in every reachable state of the new page table (kernel segments of any
\* p_flags, stack, trampoline, frame buffer, boot information, arch-specific
\* mappings) no leaf mapping is both writable and executable.
C5_NoWritableExecutableLeaf ==
    \A e \in LeafEntries(tables, root) :
        ~(EntryWritable(arch, e.flags) /\ EntryExecutable(arch, e.flags))

\* the top-level indices of the bytes [p_vaddr, p_vaddr + p_memsz) of a segment
\* that ends below 2^64
TouchedEntries(a, segment) ==
    LET start == VirtualAddress_new_canonical(a, segment.p_vaddr)
        o     == start.off + segment.p_memsz.off - 1
        m     == start.mid + segment.p_memsz.mid + (o \div PAGE_SIZE)
        last  == start.top + segment.p_memsz.top + (m \div MidSize)
    IN  { t % ENTRY_COUNT : t \in start.top..last }

WindowEntries(w) ==
    { t % ENTRY_COUNT : t \in w.address.top..(w.address.top + CeilTopLevel(w.len) - 1) }

MarkedBeforeMapped ==
    \A j \in 1..Len(log) :
        (log[j].op = "map" /\ log[j].root = root) =>
            \A n \in 1..Len(loaded) :
                (\E k \in 1..Len(SegmentPages(arch, loaded[n].segment)) :
                    SegmentPages(arch, loaded[n].segment)[k] = log[j].page)
                => \E i \in 1..(j - 1) : log[i] = MarkEvent(loaded[n].segment)

\* C7: after mark_segment_as_used for a segment with p_memsz > 0 every top-level
\* index touched by [p_vaddr, p_vaddr + p_memsz) is used, the mark comes before
\* any page of the segment is mapped, and no later get_free_address returns a
\* window that contains a top-level entry of a marked segment (of either of two
\* segments).
C7_SegmentEntriesMarkedAndAvoided ==
    /\ \A n \in 1..Len(marked) :
          \A idx \in TouchedEntries(arch, marked[n]) : level_4_entries[idx]
    /\ MarkedBeforeMapped
    /\ \A i \in 1..Len(windows) :
          \A n \in 1..Len(windows[i].after) :
              WindowEntries(windows[i]) \cap TouchedEntries(arch, windows[i].after[n]) = {}

\* a segment that spans the top-level entries 1 and 2 was mapped, and the
\* stack window came after it
C7_Witness ==
    /\ Len(marked) = 1
    /\ TouchedEntries(arch, marked[1]) = {1, 2}
    /\ \E j \in 1..Len(log) : log[j].op = "map" /\ p4_index(log[j].page) = 2
    /\ Len(windows) >= 1
    /\ windows[1].after = marked

\* C8: after a LOAD segment with p_memsz > 0 is handled, every page that meets
\* [p_vaddr, p_vaddr + p_memsz) is mapped in the new page table, the k-th page
\* to the k-th frame counted from the frame that contains p_paddr, whatever
\* the page offsets of p_vaddr and p_paddr.
C8_SegmentPagesMappedToPaddrFrames ==
    halted = "" =>
        \A n \in 1..Len(loaded) :
            LET segment == loaded[n].segment
                pages   == SegmentPages(arch, segment)
                first   == containing_address(PhysicalAddress_new_canonical(arch, segment.p_paddr))
            IN  \A k \in 1..Len(pages) :
                    /\ Walk(tables, root, pages[k]).present
                    /\ Walk(tables, root, pages[k]).frame = Chunk_add(first, k - 1)

\* C9: after a LOAD segment with p_memsz >= p_filesz is handled by
\* handle_load_segment, the p_filesz bytes at physical p_paddr are the file's
\* bytes from p_offset on, and the p_memsz - p_filesz bytes from
\* p_paddr + p_filesz on are zero.
C9_FileBytesCopiedAndBssZeroed ==
    (halted = "" /\ build \in {"src", "main"}) =>
        \A n \in 1..Len(loaded) :
            LET segment == loaded[n].segment
                paddr   == ToInt(segment.p_paddr)
                filesz  == ToInt(segment.p_filesz)
                memsz   == ToInt(segment.p_memsz)
            IN  /\ \A i \in 0..(filesz - 1) :
                        ByteAt(memory_writes, paddr + i) = FileByte(ToInt(segment.p_offset) + i)
                /\ \A i \in filesz..(memsz - 1) : ByteAt(memory_writes, paddr + i) = 0

\* C10: at the handoff the boot information pointer given to the kernel and the
\* pointers of the three slices in the header lie in pages that are present in
\* the page table the trampoline installs.
C10_BootInfoPointersMapped ==
    context # None =>
        \A pointer \in { context[1].boot_info, boot_info[1].memory_regions,
                         boot_info[1].modules, boot_info[1].elf_sections } :
            Walk(tables, Some(context[1].page_table), containing_address(pointer)).present

---------------------------------------------------------------------------
(* Claims about the lifecycle *)

\* C11: after exit_boot_services has been called no firmware boot service
\* (file, allocate_pages, memory map, protocol, stdout) is invoked on any path,
\* the panic path included, and the firmware never returns to the Boot state.
C11_NoFirmwareServiceAfterExit ==
    /\ [](\A i \in 1..Len(firmware_calls) : firmware_calls[i].state = "Boot")
    /\ [][services = "Runtime" => services' = "Runtime"]_vars

\* the bootloader panicked after boot services were exited
C11_Witness == services = "Runtime" /\ halted # ""

\* the window get_free_address(STACK_SIZE) returned
StackWindow == CHOOSE i \in 1..Len(windows) : windows[i].len = STACK_SIZE

StackLeaf(k) == Walk(tables, root, Chunk_add(containing_address(windows[StackWindow].address), k))

\* the guard page is unmapped, the other 17 pages are mapped to distinct frames
\* of the frame allocator, and stack_top follows the last of them
StackLayout ==
    /\ ~StackLeaf(0).present
    /\ \A k \in 1..(STACK_PAGES - 1) :
          /\ StackLeaf(k).present
          /\ \E i \in 1..Len(returned) : returned[i].frame = StackLeaf(k).frame
          /\ \A j \in 1..(STACK_PAGES - 1) : j # k => StackLeaf(j).frame # StackLeaf(k).frame
    /\ mappings[1].stack_top =
           Page_start_address(arch, Chunk_add(containing_address(windows[StackWindow].address),
                                              STACK_PAGES))

\* C12: after stack set-up, of the 18 consecutive pages reserved for the stack
\* the lowest (the guard) is unmapped in the new page table, each of the other
\* 17 is mapped to a distinct frame drawn from the frame allocator with exactly
\* PRESENT|WRITABLE|NO_EXECUTE, and stack_top is the address right after the
\* last mapped stack page.
C12_StackGuardedWritableNoExecute ==
    (mappings # None /\ halted = "") =>
        /\ StackLayout
        /\ \A k \in 1..(STACK_PAGES - 1) :
              /\ EntryWritable(arch, StackLeaf(k).flags)
              /\ ~EntryExecutable(arch, StackLeaf(k).flags)

\* the leaf of the page that holds the context switch function
TrampolineLeaf ==
    Walk(tables, root, containing_address(VirtualAddress_new_canonical(arch, CONTEXT_SWITCH)))

\* C13: before handoff the page containing the function that switches the page
\* table and branches is mapped in the new page table to the frame with the
\* same number (virtual = physical), with PRESENT only: not writable,
\* executable.
C13_TrampolineIdentityMappedPresentOnly ==
    (mappings # None /\ halted = "") =>
        /\ TrampolineLeaf.present
        /\ TrampolineLeaf.frame = containing_address(CONTEXT_SWITCH)
        /\ ~EntryWritable(arch, TrampolineLeaf.flags)
        /\ EntryExecutable(arch, TrampolineLeaf.flags)

\* the places of `instructions` that hold an instruction with this op and
\* these operands
Places(op, operands) ==
    { i \in 1..Len(instructions) : instructions[i] = Instruction(op, operands) }

\* C15: the aarch64 handoff disables the MMU, installs the new root in
\* TTBR0_EL1 with ASID 0, configures MAIR_EL1 and TCR_EL1, re-enables the MMU
\* followed by an instruction-synchronization barrier, invalidates the TLB by
\* ASID, loads the stack pointer with stack_top, then branches to the entry
\* point with the boot-info pointer in x0, in this order and omitting none
C15_Aarch64HandoffOrder ==
    (arch = "aarch64" /\ pc = "kernel") =>
        \E disable \in Places("msr SCTLR_EL1", <<[M |-> "Disable"]>>),
           ttbr    \in Places("msr TTBR0_EL1", <<[ASID |-> 0, root |-> context[1].page_table]>>),
           mair    \in Places("msr MAIR_EL1", <<>>),
           tcr     \in Places("msr TCR_EL1", <<>>),
           enable  \in Places("msr SCTLR_EL1", <<[M |-> "Enable"]>>),
           tlbi    \in Places("tlbi aside1", <<[ASID |-> 0]>>),
           sp      \in Places("mov sp", <<context[1].stack_top>>),
           br      \in Places("br", <<[target |-> context[1].entry_point,
                                       x0 |-> context[1].boot_info]>>) :
              /\ disable < ttbr /\ ttbr < mair /\ ttbr < tcr
              /\ mair < enable /\ tcr < enable
              /\ enable + 1 \in Places("isb", <<>>)
              /\ enable + 1 < tlbi /\ tlbi < sp /\ sp < br
              /\ br = Len(instructions)

\* what the aarch64 context_switch does do, in order
C15_StepsPresent ==
    (arch = "aarch64" /\ pc = "kernel") =>
        \E ttbr   \in Places("msr TTBR0_EL1", <<[ASID |-> 0, root |-> context[1].page_table]>>),
           mair   \in Places("msr MAIR_EL1", <<>>),
           tcr    \in Places("msr TCR_EL1", <<>>),
           enable \in Places("msr SCTLR_EL1", <<[M |-> "Enable"]>>),
           br     \in Places("br", <<[target |-> context[1].entry_point,
                                      x0 |-> context[1].boot_info]>>) :
              /\ ttbr < mair /\ mair < tcr /\ tcr < enable
              /\ enable + 1 \in Places("isb", <<>>)
              /\ br = enable + 2 /\ br = Len(instructions)

---------------------------------------------------------------------------
(* Specification SpecPure: the functions of main that compute a value from
   what the firmware reports, each applied to inputs from small sets *)

RegionTypes == {CONVENTIONAL, "BOOT_SERVICES_CODE", "RESERVED", "ACPI_NON_VOLATILE"}

RegionDescriptors ==
    { MemoryDescriptor(ty, s, n) :
        ty \in RegionTypes, s \in {FromInt(LOW_MEMORY_LIMIT), U64(1, 0, 0)}, n \in 1..2 }

\* the memory maps exit_boot_services may return
FinalMemoryMaps == UNION { [1..n -> RegionDescriptors] : n \in 0..MaxDescriptors }

Usable == <<"Usable">>

UnknownUefi(tag) == <<"UnknownUefi", tag>>

\* the kind main gives a descriptor of type `ty`
MemoryRegionKind(ty) ==
    IF ty \in {CONVENTIONAL, "LOADER_CODE", "LOADER_DATA", "BOOT_SERVICES_CODE",
               "BOOT_SERVICES_DATA"}
    THEN Usable
    ELSE UnknownUefi(ty)

\* the loop of main over the final memory map and memory_regions_uninit[..i]
memory_regions(final_memory_map) ==
    [i \in 1..Len(final_memory_map) |->
        [start |-> final_memory_map[i].phys_start,
         end   |-> U64Add(final_memory_map[i].phys_start, FromInt(1)),
         kind  |-> MemoryRegionKind(final_memory_map[i].ty)]]

MaxConfigEntries == 3

ConfigTableEntries ==
    { [guid |-> g, address |-> a] :
        g \in {"ACPI2_GUID", "ACPI_GUID", "SMBIOS_GUID"},
        a \in {U64(0, 1015, 20), U64(0, 1016, 0)} }

\* system_table.config_table()
ConfigTables == UNION { [1..n -> ConfigTableEntries] : n \in 0..MaxConfigEntries }

\* Iterator::find on a slice iterator that has yielded `pos` entries: the
\* first later entry with the guid, and the iterator after it has yielded it
find(table, pos, guid) ==
    Let({ i \in (pos + 1)..Len(table) : table[i].guid = guid }, LAMBDA hits :
        IF hits = {} THEN [item |-> None, pos |-> Len(table)]
        ELSE Let(CHOOSE i \in hits : \A j \in hits : i <= j, LAMBDA i :
                 [item |-> Some(table[i]), pos |-> i]))

\* get_rsdp_address: both searches draw from the one iterator config_entries
get_rsdp_address(config_table) ==
    Let(find(config_table, 0, "ACPI2_GUID"), LAMBDA acpi2_rsdp :
        Let(IF acpi2_rsdp.item # None THEN acpi2_rsdp.item
            ELSE find(config_table, acpi2_rsdp.pos, "ACPI_GUID").item, LAMBDA rsdp :
            IF rsdp = None THEN None ELSE Some(rsdp[1].address)))

MaxModuleEntries == 2

\* a file name of n UCS-2 code units, all the character c
FileName(n, c) == [k \in 1..n |-> c]

\* 'a', e acute and the euro sign: one, two and three bytes of UTF-8
FileNames ==
    { FileName(n, 97) : n \in {1, 61, 62, 65} }
        \cup { FileName(n, 233) : n \in {31, 32} }
        \cup { FileName(n, 8364) : n \in {21, 22} }

FileInfo(directory, file_size, file_name) ==
    [directory |-> directory, file_size |-> file_size, file_name |-> file_name]

\* what read_entry may yield for the modules directory
DirectoryEntries ==
    { FileInfo(TRUE, U64Zero, FileName(1, 46)) }
        \cup { FileInfo(FALSE, FromInt(n), FileName(1, 97)) : n \in {0, 1, 3000, 4096, 5000} }
        \cup { FileInfo(FALSE, FromInt(3000), name) : name \in FileNames }

Listings == UNION { [1..n -> DirectoryEntries] : n \in 0..MaxModuleEntries }

\* the pages the firmware can still allocate: 4 GiB
FirmwareFreePages == U64(0, 256, 0)

\* ((bytes - 1) / 4096) + 1 in usize: `bytes - 1` panics on 0 with overflow
\* checks and wraps to usize::MAX without
calculate_pages(bytes, overflow_checks) ==
    LET minus_one == IF bytes = U64Zero THEN U64Max ELSE saturating_sub(bytes, FromInt(1))
        quotient  == U64(minus_one.top \div PAGE_SIZE,
                         (minus_one.top % PAGE_SIZE) * (MidSize \div PAGE_SIZE)
                             + (minus_one.mid \div PAGE_SIZE),
                         minus_one.mid % PAGE_SIZE)
    IN  [panic |-> IF overflow_checks /\ bytes = U64Zero
                   THEN "attempt to subtract with overflow" ELSE "",
         pages |-> U64Add(quotient, FromInt(1))]

\* num_pages * 4096 in usize, wrapping (with overflow checks the subtraction
\* of calculate_pages has panicked before a product can overflow)
times_4096(num_pages) ==
    U64((num_pages.top % (TopSize \div PAGE_SIZE)) * PAGE_SIZE
            + (num_pages.mid \div (MidSize \div PAGE_SIZE)),
        (num_pages.mid % (MidSize \div PAGE_SIZE)) * PAGE_SIZE + num_pages.off,
        0)

\* allocate_slice: the panic of calculate_pages or of the unwrap of
\* allocate_pages, "" when the slice is allocated
allocate_slice(bytes_len, overflow_checks) ==
    Let(calculate_pages(bytes_len, overflow_checks), LAMBDA num_pages :
        IF num_pages.panic # "" THEN num_pages.panic
        ELSE IF U64Lt(FirmwareFreePages, num_pages.pages)
        THEN "called Result::unwrap() on an Err value: OUT_OF_RESOURCES"
        ELSE "")

\* char::encode_utf8 of a UCS-2 code unit
encode_utf8(c) ==
    IF c < 128 THEN <<c>>
    ELSE IF c < 2048 THEN <<192 + (c \div 64), 128 + (c % 64)>>
    ELSE <<224 + (c \div 4096), 128 + ((c \div 64) % 64), 128 + (c % 64)>>

\* the loop over name.iter(): each character is encoded into
\* name_buf[name_idx..(name_idx + 4)], a slice that must lie inside the 64 bytes
RECURSIVE encode_name(_, _, _)
encode_name(name, k, written) ==
    IF k > Len(name) THEN [panic |-> "", bytes |-> written]
    ELSE IF Len(written) + 4 > 64
    THEN [panic |-> "range end index out of range for slice of length 64", bytes |-> written]
    ELSE encode_name(name, k + 1, written \o encode_utf8(name[k]))

name_buf(bytes) == [k \in 1..64 |-> IF k <= Len(bytes) THEN bytes[k] ELSE 0]

\* num_pages after the first k files: the sum of their calculate_pages
RECURSIVE num_pages_after(_, _, _)
num_pages_after(files, k, overflow_checks) ==
    IF k = 0 THEN U64Zero
    ELSE U64Add(num_pages_after(files, k - 1, overflow_checks),
                calculate_pages(files[k].file_size, overflow_checks).pages)

Module(name, offset, len) == [name |-> name, offset |-> offset, len |-> len]

\* the second loop of load up to the file k: the first panic, if any
RECURSIVE second_loop_panic(_, _, _, _)
second_loop_panic(files, k, raw_bytes_len, overflow_checks) ==
    IF k > Len(files) THEN ""
    ELSE IF U64Lt(raw_bytes_len, times_4096(num_pages_after(files, k - 1, overflow_checks)))
    THEN "range start index out of range for slice"
    ELSE IF encode_name(files[k].file_name, 1, <<>>).panic # ""
    THEN encode_name(files[k].file_name, 1, <<>>).panic
    ELSE IF calculate_pages(files[k].file_size, overflow_checks).panic # ""
    THEN calculate_pages(files[k].file_size, overflow_checks).panic
    ELSE second_loop_panic(files, k + 1, raw_bytes_len, overflow_checks)

\* modules::load over the listing of the modules directory
load(listing, overflow_checks) ==
    Let(SelectSeq(listing, LAMBDA info : ~info.directory), LAMBDA files :
    Let(times_4096(num_pages_after(files, Len(files), overflow_checks)), LAMBDA raw_bytes_len :
    Let(IF \E k \in 1..Len(files) :
               calculate_pages(files[k].file_size, overflow_checks).panic # ""
           THEN "attempt to subtract with overflow"
           ELSE IF allocate_slice(FromInt(ModuleLayout.size * Len(files)), overflow_checks) # ""
           THEN allocate_slice(FromInt(ModuleLayout.size * Len(files)), overflow_checks)
           ELSE IF allocate_slice(raw_bytes_len, overflow_checks) # ""
           THEN allocate_slice(raw_bytes_len, overflow_checks)
           ELSE second_loop_panic(files, 1, raw_bytes_len, overflow_checks), LAMBDA panicked :
        [panic     |-> panicked,
         raw_bytes |-> raw_bytes_len,
         modules   |-> IF panicked # "" THEN <<>>
                       ELSE [k \in 1..Len(files) |->
                                Module(name_buf(encode_name(files[k].file_name, 1, <<>>).bytes),
                                       times_4096(num_pages_after(files, k - 1, overflow_checks)),
                                       files[k].file_size)]])))

\* usize values around the limits of the canonical ranges of both architectures
Usizes ==
    { U64(t, m, o) :
        t \in {0, 1, ENTRY_COUNT \div 2 - 1, ENTRY_COUNT \div 2, ENTRY_COUNT - 1, ENTRY_COUNT,
               ENTRY_COUNT * 16 - 1, ENTRY_COUNT * 16, TopSize - ENTRY_COUNT * 16,
               TopSize - ENTRY_COUNT - 1, TopSize - ENTRY_COUNT,
               TopSize - ENTRY_COUNT \div 2 - 1, TopSize - ENTRY_COUNT \div 2, TopSize - 1},
        m \in {0, MidSize - 1},
        o \in {0, PAGE_SIZE - 1} }

canonicalize(a, virtual, addr) ==
    IF virtual THEN canonicalize_virtual_address(a, addr)
    ELSE canonicalize_physical_address(a, addr)

is_canonical(a, virtual, addr) ==
    IF virtual THEN is_canonical_virtual_address(a, addr)
    ELSE is_canonical_physical_address(a, addr)

\* the addresses a VirtualAddress or PhysicalAddress can hold
Addresses(a, virtual) == { canonicalize(a, virtual, u) : u \in Usizes }

\* the operators derive(Add, Sub, BitAnd, BitOr, BitXor) gives an address
\* type: the operator of usize on the two wrapped values, wrapped again.
\* `+` and `-` panic on overflow with overflow checks and wrap without.
derived(op, self, rhs, overflow_checks) ==
    LET RECURSIVE bitwise(_, _, _)
        bitwise(x, y, bits) ==
            IF bits = 0 THEN 0
            ELSE (CASE op = "bitand" -> (x % 2) * (y % 2)
                    [] op = "bitor"  -> IF (x % 2) + (y % 2) > 0 THEN 1 ELSE 0
                    [] op = "bitxor" -> ((x % 2) + (y % 2)) % 2)
                 + 2 * bitwise(x \div 2, y \div 2, bits - 1)
        difference(x, y) == saturating_sub(x, y)
    IN  CASE op = "add" ->
               [panic |-> IF overflow_checks /\ saturating_add(self, rhs) # U64Add(self, rhs)
                          THEN "attempt to add with overflow" ELSE "",
                value |-> U64Add(self, rhs)]
          [] op = "sub" ->
               [panic |-> IF overflow_checks /\ U64Lt(self, rhs)
                          THEN "attempt to subtract with overflow" ELSE "",
                value |-> IF U64Le(rhs, self) THEN difference(self, rhs)
                          ELSE U64Add(difference(U64Max, difference(rhs, self)), FromInt(1))]
          [] OTHER ->
               [panic |-> "",
                value |-> U64(bitwise(self.top, rhs.top, 25), bitwise(self.mid, rhs.mid, 27),
                              bitwise(self.off, rhs.off, 12))]

MaxIterated == 4

\* RangeInclusive::contains(&Page::containing_address(addr))
contains_address(start, end, addr) ==
    ChunkLe(start, containing_address(addr)) /\ ChunkLe(containing_address(addr), end)

\* PageRange / FrameRange::new(start, end) asked for its size, iterated (up to
\* MaxIterated items, -1 beyond), and asked about `addr` and `offset`
range(a, virtual, start, end, addr, offset, overflow_checks) ==
    LET start_address == canonicalize(a, virtual, U64(start.top, start.mid, 0))
        \* self.0.end().number + 1
        end_plus_1 == IF end.mid + 1 = MidSize THEN Chunk(end.top + 1, 0)
                      ELSE Chunk(end.top, end.mid + 1)
        \* (end + 1).saturating_sub(start)
        size_in_pages ==
            IF ChunkLe(end_plus_1, start) THEN Chunk(0, 0)
            ELSE IF end_plus_1.mid >= start.mid
            THEN Chunk(end_plus_1.top - start.top, end_plus_1.mid - start.mid)
            ELSE Chunk(end_plus_1.top - start.top - 1, end_plus_1.mid + MidSize - start.mid)
        \* size_in_pages() * PAGE_SIZE
        size_in_bytes ==
            [panic |-> IF overflow_checks /\ size_in_pages.top >= TopSize
                       THEN "attempt to multiply with overflow" ELSE "",
             value |-> U64(size_in_pages.top % TopSize, size_in_pages.mid, 0)]
        \* RangeInclusive::next until None, counting the items
        RECURSIVE yields(_, _)
        yields(next, count) ==
            IF ChunkLt(end, next) THEN count
            ELSE IF count = MaxIterated THEN -1
            ELSE IF next = end THEN count + 1
            ELSE yields(IF next.mid + 1 = MidSize THEN Chunk(next.top + 1, 0)
                        ELSE Chunk(next.top, next.mid + 1), count + 1)
        offset_of_address(x) ==
            IF contains_address(start, end, x)
            THEN Let(derived("sub", x, start_address, overflow_checks), LAMBDA d :
                     [panic |-> d.panic, value |-> Some(d.value)])
            ELSE [panic |-> "", value |-> None]
        address_at_offset(o) ==
            IF size_in_bytes.panic # "" THEN [panic |-> size_in_bytes.panic, value |-> None]
            ELSE IF U64Le(o, size_in_bytes.value)
            THEN [panic |-> "",
                  value |-> Some(IF virtual THEN VirtualAddress_add(a, start_address, o)
                                 ELSE PhysicalAddress_add(a, start_address, o))]
            ELSE [panic |-> "", value |-> None]
    IN  [size_in_pages     |-> size_in_pages,
         yielded           |-> yields(start, 0),
         size_in_bytes     |-> size_in_bytes,
         offset_of_address |-> offset_of_address(addr),
         address_at_offset |-> address_at_offset(offset),
         there_and_back    |-> IF offset_of_address(addr).value = None
                                  \/ offset_of_address(addr).panic # ""
                               THEN offset_of_address(addr)
                               ELSE address_at_offset(offset_of_address(addr).value[1])]

\* pages and frames: the first ones, the last of the lower half and the
\* first of the upper half of the x86_64 virtual range, and MAX_PAGE_NUMBER
RangeChunks ==
    { Chunk(0, 0), Chunk(0, 1), Chunk(0, 3), Chunk(ENTRY_COUNT \div 2 - 1, MidSize - 1),
      Chunk(TopSize - ENTRY_COUNT \div 2, 0), MAX_PAGE_NUMBER }

RangeAddresses ==
    { U64Zero, U64(0, 1, 5), U64(0, 3, PAGE_SIZE - 1), U64(0, 4, 0),
      U64(TopSize - ENTRY_COUNT \div 2, 0, 8) }

RangeOffsets == { U64Zero, FromInt(1), FromInt(PAGE_SIZE), FromInt(3 * PAGE_SIZE), U64Max }

\* byte counts asked of calculate_pages: around 0, around one and two pages,
\* around 2^39 and up to usize::MAX
ByteCounts ==
    { U64(t, m, o) : t \in {0, 1, TopSize - 1}, m \in {0, 1, 2, MidSize - 1},
                     o \in {0, 1, PAGE_SIZE - 1} }

\* map sizes the firmware reports, and the sizes of one of its descriptors
MapSizes == { 40, 96, 480, 4000, 4088, 4096, 8000 }

EntrySizes == { 40, 48 }

\* core::mem::size_of::<MemoryDescriptor>()
SIZE_OF_MEMORY_DESCRIPTOR == 40

\* the storage of the final memory map: the pages asked of allocate_pages and
\* the length of the slice made of them. main.rs counts the pages of
\* memory_map_len and makes a slice of memory_map_len * size_of descriptor
\* bytes; BootContext::exit_boot_services uses predicted_map_size for both
memory_map_storage(b, map_size, entry_size, overflow_checks) ==
    IF b = "context"
    THEN Let(map_size + (4 * entry_size), LAMBDA predicted_map_size :
             [pages |-> calculate_pages(FromInt(predicted_map_size), overflow_checks).pages,
              bytes |-> FromInt(predicted_map_size)])
    ELSE Let(map_size + 8, LAMBDA memory_map_len :
             [pages |-> calculate_pages(FromInt(memory_map_len), overflow_checks).pages,
              bytes |-> FromInt(memory_map_len * SIZE_OF_MEMORY_DESCRIPTOR)])

PureCalls ==
    { [fn |-> "memory_regions", memory_map |-> map] : map \in FinalMemoryMaps }
        \cup { [fn |-> "calculate_pages", bytes |-> n, overflow_checks |-> c] :
                  n \in ByteCounts, c \in BOOLEAN }
        \cup { [fn |-> "memory_map_storage", build |-> b, map_size |-> n, entry_size |-> z,
                 overflow_checks |-> c] :
                  b \in {"main", "context"}, n \in MapSizes, z \in EntrySizes,
                  c \in BOOLEAN }
        \cup { [fn |-> "range", virtual |-> v, start |-> x, end |-> y, addr |-> u, offset |-> o,
                 overflow_checks |-> c] :
                  v \in BOOLEAN, x \in RangeChunks, y \in RangeChunks, u \in RangeAddresses,
                  o \in RangeOffsets, c \in BOOLEAN }
        \cup { [fn |-> "new_canonical", virtual |-> v, addr |-> u] : v \in BOOLEAN, u \in Usizes }
        \cup { [fn |-> "derived", op |-> op, virtual |-> v, self |-> x, rhs |-> y,
                 overflow_checks |-> o] :
                  op \in {"add", "sub", "bitand", "bitor", "bitxor"}, v \in BOOLEAN,
                  x \in UNION { Addresses(a, w) : a \in Archs, w \in BOOLEAN },
                  y \in UNION { Addresses(a, w) : a \in Archs, w \in BOOLEAN },
                  o \in BOOLEAN }
        \cup { [fn |-> "new", virtual |-> v, addr |-> u] : v \in BOOLEAN, u \in Usizes }
        \cup { [fn |-> op, virtual |-> v, self |-> x, rhs |-> u] :
                  op \in {"add", "sub"}, v \in BOOLEAN,
                  x \in UNION { Addresses(a, w) : a \in Archs, w \in BOOLEAN }, u \in Usizes }
        \cup { [fn |-> "load", listing |-> l, overflow_checks |-> o] :
                  l \in Listings, o \in BOOLEAN }
        \cup { [fn |-> "get_rsdp_address", config_table |-> t] : t \in ConfigTables }

InitPure ==
    /\ arch \in Archs
    /\ halted = ""
    /\ InitFAWith(<<>>)
    /\ IdlePA
    /\ IdleMapper
    /\ IdleBoot
    /\ call \in { Some(c) : c \in PureCalls }
    /\ call[1].fn \in {"add", "sub"} => call[1].self \in Addresses(arch, call[1].virtual)
    /\ call[1].fn = "range" => is_canonical(arch, call[1].virtual, call[1].addr)
    /\ call[1].fn = "derived" => /\ call[1].self \in Addresses(arch, call[1].virtual)
                                 /\ call[1].rhs \in Addresses(arch, call[1].virtual)
    /\ result = None

\* the call returns
Return(value) ==
    /\ result = None
    /\ result' = Some(value)
    /\ UNCHANGED <<arch, halted, faVars, paVars, mapVars, bootVars, call>>

MemoryRegions ==
    /\ call[1].fn = "memory_regions"
    /\ Return(memory_regions(call[1].memory_map))

GetRsdpAddress ==
    /\ call[1].fn = "get_rsdp_address"
    /\ Return(get_rsdp_address(call[1].config_table))

CalculatePages ==
    /\ call[1].fn = "calculate_pages"
    /\ Return(calculate_pages(call[1].bytes, call[1].overflow_checks))

\* the buffer of the final memory map is allocated
MemoryMapStorage ==
    /\ call[1].fn = "memory_map_storage"
    /\ Return(memory_map_storage(call[1].build, call[1].map_size, call[1].entry_size,
                                 call[1].overflow_checks))

ModulesLoad ==
    /\ call[1].fn = "load"
    /\ Return(load(call[1].listing, call[1].overflow_checks))

\* VirtualAddress::new / PhysicalAddress::new of the architecture
AddressNew ==
    /\ call[1].fn = "new"
    /\ Return(Address_new(arch, call[1].virtual, call[1].addr))

\* self + rhs
AddressAdd ==
    /\ call[1].fn = "add"
    /\ Return(IF call[1].virtual THEN VirtualAddress_add(arch, call[1].self, call[1].rhs)
              ELSE PhysicalAddress_add(arch, call[1].self, call[1].rhs))

\* self - rhs
AddressSub ==
    /\ call[1].fn = "sub"
    /\ Return(IF call[1].virtual THEN VirtualAddress_sub(arch, call[1].self, call[1].rhs)
              ELSE PhysicalAddress_sub(arch, call[1].self, call[1].rhs))

\* VirtualAddress::new_canonical / PhysicalAddress::new_canonical; zero() is
\* new_canonical(0)
AddressNewCanonical ==
    /\ call[1].fn = "new_canonical"
    /\ Return(canonicalize(arch, call[1].virtual, call[1].addr))

\* self + rhs, self - rhs, self & rhs, self | rhs, self ^ rhs of two addresses
AddressDerived ==
    /\ call[1].fn = "derived"
    /\ Return(derived(call[1].op, call[1].self, call[1].rhs, call[1].overflow_checks))

\* a PageRange or FrameRange is built and asked
Range ==
    /\ call[1].fn = "range"
    /\ Return(range(arch, call[1].virtual, call[1].start, call[1].end, call[1].addr,
                    call[1].offset, call[1].overflow_checks))

NextPure ==
    \/ MemoryRegions
    \/ Range
    \/ AddressNewCanonical
    \/ AddressDerived
    \/ AddressNew
    \/ AddressAdd
    \/ AddressSub
    \/ CalculatePages
    \/ MemoryMapStorage
    \/ ModulesLoad
    \/ GetRsdpAddress

SpecPure == InitPure /\ [][NextPure]_vars

---------------------------------------------------------------------------
(* Claims about the functions of main *)

\* the regions the final memory map stands for: one region per descriptor, in
\* order, from phys_start to phys_start + page_count * 4096
RegionsOf(map) ==
    [i \in 1..Len(map) |->
        [start |-> map[i].phys_start,
         end   |-> U64Add(map[i].phys_start, FromInt(map[i].page_count * PAGE_SIZE)),
         kind  |-> MemoryRegionKind(map[i].ty)]]

\* C14: for every descriptor d of the final firmware memory map, in order, the
\* memory-regions slice holds exactly one MemoryRegion with start =
\* d.phys_start, end = d.phys_start + d.page_count * 4096 and kind Usable for
\* the five usable types, else UnknownUefi(tag); the slice is as long as the map
C14_RegionsTranslateDescriptors ==
    (call # None /\ call[1].fn = "memory_regions" /\ result # None)
        => result[1] = RegionsOf(call[1].memory_map)

\* what does hold: the length, the order, the starts and the kinds
C14_StartAndKindTranslated ==
    (call # None /\ call[1].fn = "memory_regions" /\ result # None)
        => /\ Len(result[1]) = Len(call[1].memory_map)
           /\ \A i \in 1..Len(result[1]) :
                 /\ result[1][i].start = RegionsOf(call[1].memory_map)[i].start
                 /\ result[1][i].kind = RegionsOf(call[1].memory_map)[i].kind
                 /\ result[1][i].end # RegionsOf(call[1].memory_map)[i].end

\* the addresses of the entries of a configuration table with this guid
AddressesOf(table, guid) ==
    { table[i].address : i \in { j \in 1..Len(table) : table[j].guid = guid } }

\* C16: get_rsdp_address, for any configuration table, returns the address of
\* the ACPI2-GUID entry when one exists, otherwise the address of the
\* ACPI1-GUID entry when one exists, otherwise none
C16_RsdpPrefersAcpi2FallsBackToAcpi1 ==
    (call # None /\ call[1].fn = "get_rsdp_address" /\ result # None) =>
        Let(call[1].config_table, LAMBDA table :
            IF AddressesOf(table, "ACPI2_GUID") # {}
            THEN result[1] # None /\ result[1][1] \in AddressesOf(table, "ACPI2_GUID")
            ELSE IF AddressesOf(table, "ACPI_GUID") # {}
            THEN result[1] # None /\ result[1][1] \in AddressesOf(table, "ACPI_GUID")
            ELSE result[1] = None)

\* what does hold: the first ACPI2 entry is returned when there is one, and
\* nothing otherwise, whatever else the table holds
C16_OnlyAcpi2Found ==
    (call # None /\ call[1].fn = "get_rsdp_address" /\ result # None) =>
        Let(call[1].config_table, LAMBDA table :
            IF AddressesOf(table, "ACPI2_GUID") # {}
            THEN result[1] # None /\ result[1][1] \in AddressesOf(table, "ACPI2_GUID")
            ELSE result[1] = None)

\* the non-directory entries of a listing, in listing order
FilesOf(listing) == SelectSeq(listing, LAMBDA info : ~info.directory)

\* ceil(size / 4096) of a file size below 2^31
CeilPages(size) == (ToInt(size) + PAGE_SIZE - 1) \div PAGE_SIZE

RECURSIVE PagesBefore(_, _)
PagesBefore(files, i) ==
    IF i = 1 THEN 0 ELSE PagesBefore(files, i - 1) + CeilPages(files[i - 1].file_size)

\* the bytes [offset, offset + len) of two modules do not meet
ModulesDisjoint(m, n) ==
    \/ ToInt(m.offset) + ToInt(m.len) <= ToInt(n.offset)
    \/ ToInt(n.offset) + ToInt(n.len) <= ToInt(m.offset)

\* C17: for any listing of the modules directory the module array has one
\* entry per non-directory entry in listing order; the i-th has len = size_i
\* and offset = 4096 * the sum over j < i of ceil(size_j / 4096), so every
\* module starts on a fresh page, the byte ranges are pairwise disjoint and
\* all of them lie inside the single allocated block
C17_ModulesPagePaddedInListingOrder ==
    (call # None /\ call[1].fn = "load" /\ result # None) =>
        Let(FilesOf(call[1].listing), LAMBDA files :
            /\ result[1].panic = ""
            /\ Len(result[1].modules) = Len(files)
            /\ \A i \in 1..Len(files) :
                  /\ result[1].modules[i].len = files[i].file_size
                  /\ result[1].modules[i].offset = FromInt(PAGE_SIZE * PagesBefore(files, i))
                  /\ result[1].modules[i].offset.off = 0
                  /\ ToInt(result[1].modules[i].offset) + ToInt(files[i].file_size)
                         <= ToInt(result[1].raw_bytes)
            /\ \A i, j \in 1..Len(files) :
                  i # j => ModulesDisjoint(result[1].modules[i], result[1].modules[j]))

\* what does hold: whenever load returns, the array is as claimed
C17_HoldsWhenLoadReturns ==
    (call # None /\ call[1].fn = "load" /\ result # None /\ result[1].panic = "")
        => Let(FilesOf(call[1].listing), LAMBDA files :
               /\ Len(result[1].modules) = Len(files)
               /\ \A i \in 1..Len(files) :
                     /\ result[1].modules[i].len = files[i].file_size
                     /\ result[1].modules[i].offset = FromInt(PAGE_SIZE * PagesBefore(files, i))
                     /\ ToInt(result[1].modules[i].offset) + ToInt(files[i].file_size)
                            <= ToInt(result[1].raw_bytes)
               /\ \A i, j \in 1..Len(files) :
                     i # j => ModulesDisjoint(result[1].modules[i], result[1].modules[j]))

\* the UTF-8 encoding of a UCS-2 name
RECURSIVE Utf8(_)
Utf8(name) == IF name = <<>> THEN <<>> ELSE encode_utf8(Head(name)) \o Utf8(Tail(name))

\* the first 64 bytes of an encoding, zero padded when shorter
Truncated(bytes) == [k \in 1..64 |-> IF k <= Len(bytes) THEN bytes[k] ELSE 0]

\* C18: for a module whose firmware file name has any length, module loading
\* completes and the 64-byte name field holds the UTF-8 encoding of the name
\* truncated to its first 64 bytes, zero padded when shorter; a name whose
\* encoding exceeds 64 bytes is truncated and never causes a fatal halt
C18_NameTruncatedNeverHalts ==
    (/\ call # None /\ call[1].fn = "load" /\ result # None
     /\ FilesOf(call[1].listing) # <<>>
     /\ \A i \in 1..Len(FilesOf(call[1].listing)) :
           FilesOf(call[1].listing)[i].file_size # U64Zero)
        => /\ result[1].panic = ""
           /\ \A i \in 1..Len(result[1].modules) :
                 result[1].modules[i].name = Truncated(Utf8(FilesOf(call[1].listing)[i].file_name))

\* what does hold: a name is stored whole and zero padded whenever load returns
C18_NameStoredWhenLoadReturns ==
    (call # None /\ call[1].fn = "load" /\ result # None /\ result[1].panic = "")
        => \A i \in 1..Len(result[1].modules) :
              /\ Len(Utf8(FilesOf(call[1].listing)[i].file_name)) <= 63
              /\ result[1].modules[i].name = Truncated(Utf8(FilesOf(call[1].listing)[i].file_name))

\* C19: for every usize a, for virtual and physical addresses on x86_64 and
\* aarch64, is_canonical(a) holds iff canonicalize(a) = a, canonicalize is
\* idempotent, and Address::new(a) returns a value iff is_canonical(a), that
\* value being a
C19_CanonicalPredicateAgreesWithCanonicalizer ==
    (call # None /\ call[1].fn = "new" /\ result # None) =>
        Let(call[1].addr, LAMBDA a :
            /\ is_canonical(arch, call[1].virtual, a) <=> canonicalize(arch, call[1].virtual, a) = a
            /\ canonicalize(arch, call[1].virtual, canonicalize(arch, call[1].virtual, a))
                   = canonicalize(arch, call[1].virtual, a)
            /\ result[1] # None <=> is_canonical(arch, call[1].virtual, a)
            /\ result[1] # None => result[1][1] = a
            /\ result[1] # None <=> canonicalize(arch, call[1].virtual, a) = a)

\* VirtualAddress::new has accepted an address of the upper half on x86_64
C19_Witness ==
    /\ call # None /\ call[1].fn = "new" /\ result # None
    /\ arch = "x86_64" /\ call[1].virtual
    /\ call[1].addr.top = TopSize - ENTRY_COUNT \div 2
    /\ result[1] = <<call[1].addr>>

\* C20: address arithmetic never wraps: for every canonical VirtualAddress or
\* PhysicalAddress a and every usize n, (a + n).value() >= a.value() and
\* (a - n).value() <= a.value(), on both architectures
C20_AddressArithmeticNeverWraps ==
    (call # None /\ result # None) =>
        /\ call[1].fn = "add" => U64Le(call[1].self, result[1])
        /\ call[1].fn = "sub" => U64Le(result[1], call[1].self)

\* where subtraction does stay below: everywhere but x86_64 virtual addresses
C20_SubNeverGrowsWhereMasked ==
    (call # None /\ result # None /\ call[1].fn = "sub"
     /\ ~(arch = "x86_64" /\ call[1].virtual))
        => U64Le(result[1], call[1].self)

\* C21: every VirtualAddress and PhysicalAddress obtainable through the
\* public API (new, new_canonical, zero, + and - with a usize, the derived
\* address + address and address - address, and the derived bitwise operators
\* on canonical operands) satisfies the architecture's is_canonical predicate
C21_EveryAddressCanonical ==
    (call # None /\ result # None) =>
        /\ (call[1].fn = "new" /\ result[1] # None)
               => is_canonical(arch, call[1].virtual, result[1][1])
        /\ call[1].fn \in {"new_canonical", "add", "sub"}
               => is_canonical(arch, call[1].virtual, result[1])
        /\ (call[1].fn = "derived" /\ result[1].panic = "")
               => is_canonical(arch, call[1].virtual, result[1].value)

\* what does hold: everything but the derived address + address and
\* address - address yields canonical addresses
C21_CanonicalButDerivedAddSub ==
    (call # None /\ result # None) =>
        /\ (call[1].fn = "new" /\ result[1] # None)
               => is_canonical(arch, call[1].virtual, result[1][1])
        /\ call[1].fn \in {"new_canonical", "add", "sub"}
               => is_canonical(arch, call[1].virtual, result[1])
        /\ (call[1].fn = "derived" /\ call[1].op \in {"bitand", "bitor", "bitxor"})
               => is_canonical(arch, call[1].virtual, result[1].value)

\* C22: for every PageRange / FrameRange, the empty range and ranges with
\* start > end included, size_in_pages / size_in_frames equals the number of
\* items the range yields when iterated; and for every address a contained in
\* a range, address_at_offset(offset_of_address(a)) = a
C22_RangeSizeAndOffsetRoundTrip ==
    (call # None /\ call[1].fn = "range" /\ result # None) =>
        /\ result[1].yielded # -1 => result[1].size_in_pages = Chunk(0, result[1].yielded)
        /\ contains_address(call[1].start, call[1].end, call[1].addr)
               => /\ result[1].there_and_back.panic = ""
                  /\ result[1].there_and_back.value = Some(call[1].addr)

\* what does hold: the size is the number of items, and the round trip holds
\* in every range but the one from page 0 to MAX_PAGE_NUMBER
C22_HoldsBelowTheWholeAddressSpace ==
    (call # None /\ call[1].fn = "range" /\ result # None) =>
        /\ result[1].yielded # -1 => result[1].size_in_pages = Chunk(0, result[1].yielded)
        /\ (/\ contains_address(call[1].start, call[1].end, call[1].addr)
            /\ ~(call[1].start = Chunk(0, 0) /\ call[1].end = MAX_PAGE_NUMBER))
               => /\ result[1].there_and_back.panic = ""
                  /\ result[1].there_and_back.value = Some(call[1].addr)

\* C23: address_at_offset(offset) returns an address only when the offset is
\* within the range: whenever it returns Some(addr), contains_address(addr)
\* holds, and it returns None for every offset >= size_in_bytes, the offset
\* size_in_bytes included
C23_AddressAtOffsetInsideRange ==
    (/\ call # None /\ call[1].fn = "range" /\ result # None
     /\ result[1].address_at_offset.panic = "")
        => /\ result[1].address_at_offset.value # None
                 => contains_address(call[1].start, call[1].end,
                                     result[1].address_at_offset.value[1])
           /\ (/\ result[1].size_in_pages.top < TopSize
               /\ U64Le(result[1].size_in_bytes.value, call[1].offset))
                 => result[1].address_at_offset.value = None

\* what does hold where the start of the range and the start plus the offset
\* are canonical: an offset below size_in_bytes gives an address of the
\* range, an offset above it gives None
C23_HoldsOffTheEnd ==
    (/\ call # None /\ call[1].fn = "range" /\ result # None
     /\ result[1].address_at_offset.panic = ""
     /\ is_canonical(arch, call[1].virtual, U64(call[1].start.top, call[1].start.mid, 0))
     /\ is_canonical(arch, call[1].virtual,
                     saturating_add(U64(call[1].start.top, call[1].start.mid, 0),
                                    call[1].offset))
     /\ result[1].size_in_pages.top < TopSize
     /\ call[1].offset # result[1].size_in_bytes.value)
        => IF U64Lt(call[1].offset, result[1].size_in_bytes.value)
           THEN /\ result[1].address_at_offset.value # None
                /\ contains_address(call[1].start, call[1].end,
                                    result[1].address_at_offset.value[1])
           ELSE result[1].address_at_offset.value = None


\* C25: if the ELF header's e_ehsize is not 64 or its e_phentsize is not 56,
\* kernel loading halts fatally before any segment is mapped, any
\* page-allocator entry is marked, or any physical memory is written
C25_BadHeaderHaltsBeforeLoading ==
    (kernel_header.e_ehsize # 64 \/ kernel_header.e_phentsize # 56) =>
        /\ loaded = <<>>
        /\ memory_writes = <<>>
        /\ pc \in {"start", "load"}


\* the places of boot_info_writes where this part of the boot information
\* was written
Written(part) == { k \in 1..Len(boot_info_writes) : boot_info_writes[k].part = part }

\* C26: the lifecycle runs in this order in every execution that reaches
\* handoff: all kernel LOAD segments are placed; then the stack, framebuffer,
\* trampoline identity page and boot-info pages are mapped; then boot services
\* are exited; then the memory-region descriptors are finalized; then the
\* trampoline is invoked.  No mapping of stack, trampoline or framebuffer is
\* requested after exit_boot_services
C26_LifecycleOrder ==
    /\ mappings # None => ph_index = Len(elf)
    /\ boot_info # None => mappings # None
    /\ services = "Runtime" => mappings # None /\ boot_info # None
    /\ pc = "set_up_mappings" => services = "Boot"
    /\ \A k \in Written("memory_regions") : boot_info_writes[k].services = "Runtime"
    /\ instructions # <<>> => services = "Runtime" /\ Written("memory_regions") # {}

\* what holds in src/uefi-bootloader/src/main.rs: that order
C26_OrderOfMain == build = "main" => C26_LifecycleOrder

\* what holds in src/src/main.rs: that order up to exit_boot_services, whose
\* buffer the memory regions are
C26_OrderOfSrc ==
    build = "src" =>
        /\ mappings # None => ph_index = Len(elf)
        /\ boot_info # None => mappings # None
        /\ services = "Runtime" => mappings # None /\ boot_info # None
        /\ pc = "set_up_mappings" => services = "Boot"


\* C27: writes into the boot-info block occur in this order: the modules and
\* elf-sections arrays are filled before exit_boot_services is called, the
\* memory-regions array is filled after it returns, and the BootInformation
\* header is written last, after all three arrays are populated
C27_BootInfoWriteOrder ==
    /\ \A k \in Written("modules") \cup Written("elf_sections") :
           boot_info_writes[k].services = "Boot"
    /\ \A k \in Written("memory_regions") : boot_info_writes[k].services = "Runtime"
    /\ \A h \in Written("header") :
           /\ h = Len(boot_info_writes)
           /\ \A part \in {"memory_regions", "modules", "elf_sections"} :
                  \E k \in Written(part) : k < h

\* what holds: the header is written last, after the three arrays, and every
\* array but the buffer src/src/main.rs hands to the firmware is written once
\* exit_boot_services has returned
C27_HeaderLastArraysAfterExit ==
    /\ \A k \in 1..Len(boot_info_writes) :
           boot_info_writes[k].services = "Boot" =>
               build = "src" /\ boot_info_writes[k].part = "memory_regions"
    /\ \A h \in Written("header") :
           /\ h = Len(boot_info_writes)
           /\ \A part \in {"memory_regions", "modules", "elf_sections"} :
                  \E k \in Written(part) : k < h


\* the pages of the boot information: those mapped in the window of the last
\* get_free_address call, which is the one for the boot information
BootInfoPages ==
    { log[k].page : k \in { k \in 1..Len(log) :
                             /\ log[k].op = "map"
                             /\ log[k].page.top = windows[Len(windows)].address.top } }

\* C30: every boot-info page is mapped to the same frame with the same flags
\* in both the new kernel page table and the active firmware page table, and
\* those flags are writable and no-execute
C30_BootInfoMirroredWritableNoExecute ==
    (boot_info # None /\ halted = "") =>
        \A page \in BootInfoPages :
            LET own      == Walk(tables, root, page)
                firmware == Walk(tables, Some(FIRMWARE_ROOT), page)
            IN  /\ own.present /\ firmware.present
                /\ own.frame = firmware.frame
                /\ own.flags = firmware.flags
                /\ EntryWritable(arch, own.flags)
                /\ ~EntryExecutable(arch, own.flags)

\* what holds of create_boot_info: the same frame and the same flags in both
\* tables, and writable
C30_MirroredAndWritable ==
    (build = "context" /\ boot_info # None /\ halted = "") =>
        /\ BootInfoPages # {}
        /\ \A page \in BootInfoPages :
              LET own      == Walk(tables, root, page)
                  firmware == Walk(tables, Some(FIRMWARE_ROOT), page)
              IN  /\ own.present /\ firmware.present
                  /\ own.frame = firmware.frame
                  /\ own.flags = firmware.flags
                  /\ EntryWritable(arch, own.flags)


\* C31: a program header with p_memsz == 0, or with p_type other than 1
\* (0 and 7/TLS included), is skipped: it leaves the page allocator, the page
\* tables, the frame allocator and physical memory unchanged, does not halt
\* the loader, and loading continues with the next header
C31_OtherHeadersSkipped ==
    [][(/\ pc = "load" /\ halted = ""
        /\ elf[ph_index + 1].p_memsz = U64Zero \/ elf[ph_index + 1].p_type # 1) =>
           /\ UNCHANGED <<paVars, mapVars, faVars, memory_writes, loaded>>
           /\ halted' = ""
           /\ ph_index' = ph_index + 1
           /\ pc' = IF ph_index' = Len(elf) THEN NextPc(build, "load") ELSE "load"]_vars

\* a PT_NULL and a PT_NOTE header, or a TLS header and an empty LOAD header,
\* were passed and the LOAD segment after them was handled
C31_Witness ==
    /\ elf \in { <<Null, Note, Text>>, <<Tls, EmptyLoad, Text>> }
    /\ ph_index = 3
    /\ Len(loaded) = 1 /\ loaded[1].segment = Text
    /\ halted = ""


\* the map calls made for the pages of a loaded segment
SegmentMaps(segment) ==
    { k \in 1..Len(log) :
        /\ log[k].op = "map"
        /\ \E n \in 1..Len(SegmentPages(arch, segment)) :
              SegmentPages(arch, segment)[n] = log[k].page }

\* C32: for every LOAD segment the mapping flags are: PRESENT always;
\* NO_EXECUTE set iff bit 0 of p_flags is clear; WRITABLE set iff bit 1 of
\* p_flags is set; no other flag depends on p_flags (a segment with flags R|X
\* is mapped PRESENT with NX clear and WRITABLE clear)
C32_SegmentFlagsFollowPFlags ==
    halted = "" =>
        \A n \in 1..Len(loaded) : \A k \in SegmentMaps(loaded[n].segment) :
            LET leaf == Walk(tables, root, log[k].page)
            IN  /\ leaf.present
                /\ EntryExecutable(arch, leaf.flags) <=> (loaded[n].segment.p_flags % 2 = 1)
                /\ EntryWritable(arch, leaf.flags) <=>
                       ((loaded[n].segment.p_flags \div 2) % 2 = 1)

\* what holds: the flags handed to Mapper::map are those, in the three
\* revisions, and so are the leaves of the x86_64 tables
C32_RequestedFlagsFollowPFlags ==
    halted = "" =>
        \A n \in 1..Len(loaded) :
            /\ SegmentMaps(loaded[n].segment) # {}
            /\ \A k \in SegmentMaps(loaded[n].segment) :
                  /\ log[k].flags = RequestFlags(arch, (loaded[n].segment.p_flags \div 2) % 2 = 1,
                                                 loaded[n].segment.p_flags % 2 = 0)
                  /\ arch = "x86_64" =>
                         Walk(tables, root, log[k].page).flags = PRESENT \cup log[k].flags


\* ceil(n / 4096) of a usize, limb by limb
CeilOf4096(n) ==
    U64Add(U64(n.top \div PAGE_SIZE,
               ((n.top % PAGE_SIZE) * (MidSize \div PAGE_SIZE)) + (n.mid \div PAGE_SIZE),
               n.mid % PAGE_SIZE),
           FromInt(IF n.off = 0 THEN 0 ELSE 1))

\* C33: calculate_pages(n) equals ceil(n / 4096) for every n >= 0, in
\* particular calculate_pages(0) == 0 with no arithmetic underflow; so an
\* empty module file contributes 0 pages and an empty modules directory does
\* not halt the loader
C33_CalculatePagesIsCeiling ==
    result # None =>
        /\ call[1].fn = "calculate_pages" =>
              /\ result[1].panic = ""
              /\ result[1].pages = CeilOf4096(call[1].bytes)
        /\ (call[1].fn = "load" /\ FilesOf(call[1].listing) = <<>>) => result[1].panic = ""

\* what holds: the ceiling, of every count above zero
C33_CeilingAboveZero ==
    (result # None /\ call[1].fn = "calculate_pages" /\ call[1].bytes # U64Zero) =>
        /\ result[1].panic = ""
        /\ result[1].pages = CeilOf4096(call[1].bytes)


\* the physical range [p_paddr, p_paddr + p_memsz) of a segment lies in a
\* descriptor of the memory map that is tagged Conventional
TaggedConventional(segment) ==
    \E d \in 1..Len(memory_map) :
        /\ memory_map[d].ty = CONVENTIONAL
        /\ ToInt(memory_map[d].phys_start) <= ToInt(segment.p_paddr)
        /\ ToInt(segment.p_paddr) + ToInt(segment.p_memsz)
               <= ToInt(memory_map[d].phys_start) + memory_map[d].page_count * PAGE_SIZE

\* the frame holds a byte of [p_paddr, p_paddr + p_memsz)
FrameInSegment(frame, segment) ==
    /\ frame.top = 0
    /\ frame.mid * PAGE_SIZE < ToInt(segment.p_paddr) + ToInt(segment.p_memsz)
    /\ ToInt(segment.p_paddr) < (frame.mid + 1) * PAGE_SIZE

\* C34: no frame returned by the frame allocator (for page tables, stack pages
\* or boot-info pages) lies inside the physical range [p_paddr, p_paddr +
\* p_memsz) of any kernel segment that has been or will be loaded, for any
\* memory map in which that physical range is tagged Conventional when the
\* allocator is created
C34_NoFrameInsideKernelSegment ==
    \A n \in 1..Len(elf) :
        (elf[n].p_type = 1 /\ elf[n].p_memsz # U64Zero /\ TaggedConventional(elf[n])) =>
            \A k \in 1..Len(returned) : ~FrameInSegment(returned[k].frame, elf[n])

\* what holds: that, of the memory map whose conventional memory ends below
\* the kernel
C34_HoldsWhereKernelNotConventional ==
    memory_map = BootMemoryMap =>
        \A n \in 1..Len(elf) : \A k \in 1..Len(returned) :
            elf[n].p_type = 1 => ~FrameInSegment(returned[k].frame, elf[n])


\* the write lies inside the physical range of a loaded segment: p_memsz
\* bytes from p_paddr, which is where the Memory revisions load it, or from
\* the pages the firmware allocated for it
InsideLoadedSegment(w) ==
    \E n \in 1..Len(loaded) :
        /\ ToInt(loaded[n].physical_start) <= w.at
        /\ w.at + w.len <= ToInt(loaded[n].physical_start) + ToInt(loaded[n].segment.p_memsz)

\* C36: the loader never writes a physical byte outside [p_paddr, p_paddr +
\* p_memsz) while handling a LOAD segment, for any p_filesz, p_memsz and
\* p_offset in the header (p_filesz > p_memsz included, where it must halt
\* rather than copy or zero a wrapped length)
C36_WritesInsideSegment ==
    /\ \A k \in 1..Len(memory_writes) :
          memory_writes[k].len > 0 => InsideLoadedSegment(memory_writes[k])
    /\ \A n \in 1..Len(loaded) :
          ToInt(loaded[n].segment.p_filesz) > ToInt(loaded[n].segment.p_memsz) => halted # ""

\* what holds: that, of src/uefi-bootloader/src/main.rs and of the context
\* revision, for the files none of whose segments is larger in the file than
\* in memory
C36_InsideWhereFileszFits ==
    (/\ build # "src"
     /\ \A n \in 1..Len(elf) : ToInt(elf[n].p_filesz) <= ToInt(elf[n].p_memsz)) =>
        \A k \in 1..Len(memory_writes) :
            memory_writes[k].len > 0 => InsideLoadedSegment(memory_writes[k])

\* C37: the buffer handed to exit_boot_services for the final memory map lies
\* inside the pages allocated for it: its byte length never exceeds 4096
\* times the number of pages asked of the firmware, for every map size the
\* firmware reports
C37_StorageInsideItsPages ==
    (result # None /\ call[1].fn = "memory_map_storage") =>
        ToInt(result[1].bytes) <= PAGE_SIZE * ToInt(result[1].pages)

\* what holds: the buffer of BootContext::exit_boot_services lies inside its
\* pages
C37_ContextStorageInsideItsPages ==
    (result # None /\ call[1].fn = "memory_map_storage" /\ call[1].build = "context") =>
        ToInt(result[1].bytes) <= PAGE_SIZE * ToInt(result[1].pages)

\* C38: on aarch64 as on x86_64, get_free_address(len) with len > 0 returns
\* whenever some window of ceil(len / 512 GiB) contiguous unused top-level
\* entries exists, at every index 1..511, those from 256 on included, and the
\* address it returns has the window's index in its bits 39 to 47; it halts
\* only when there is no such window
C38_ReturnsWheneverAWindowExists ==
    [][\A len \in PaLens \ {U64Zero} :
          GetFreeAddress(len) =>
              IF free_windows(level_4_entries, CeilTopLevel(len)) # {}
              THEN /\ halted' = ""
                   /\ windows'[Len(windows')].address.top % ENTRY_COUNT
                          \in free_windows(level_4_entries, CeilTopLevel(len))
              ELSE halted' # ""]_vars

\* what holds: that, of x86_64 at every index and of aarch64 while an index
\* below 256 is free
C38_ReturnsBelowHalfOnAarch64 ==
    [][\A len \in PaLens \ {U64Zero} :
          (/\ GetFreeAddress(len)
           /\ arch = "aarch64" =>
                  \A i \in free_windows(level_4_entries, CeilTopLevel(len)) :
                      i >= ENTRY_COUNT \div 2 =>
                          \E j \in free_windows(level_4_entries, CeilTopLevel(len)) : j < i) =>
              IF free_windows(level_4_entries, CeilTopLevel(len)) # {}
              THEN /\ halted' = ""
                   /\ windows'[Len(windows')].address.top % ENTRY_COUNT
                          \in free_windows(level_4_entries, CeilTopLevel(len))
              ELSE halted' # ""]_vars

\* C39: the top-level entry that the x86_64 set_up_arch_specific_mappings
\* turns into the recursive slot (P4 index 510) is never handed out by
\* get_free_address and never marked by or shared with a kernel segment: once
\* set_up_mappings has run, no other mapping of the bootloader lives under
\* that entry and the entry still points at the root frame
C39_RecursiveSlotKept ==
    (build = "main" /\ halted = "" /\ mappings # None) =>
        /\ ~level_4_entries[RECURSIVE_INDEX]
        /\ \A k \in 1..Len(log) :
              log[k].op = "map" => p4_index(log[k].page) # RECURSIVE_INDEX
        /\ tables[root[1]][RECURSIVE_INDEX]
               = PageTableEntry_set_frame(root[1], PRESENT \cup WRITABLE)

\* what holds: the entry points at the root frame once set_up_mappings has
\* run, and nothing else uses it unless a segment of the kernel is linked there
C39_KeptUnlessTheKernelIsLinkedThere ==
    (build = "main" /\ halted = "" /\ mappings # None) =>
        /\ tables[root[1]][RECURSIVE_INDEX]
               = PageTableEntry_set_frame(root[1], PRESENT \cup WRITABLE)
        /\ (\A n \in 1..Len(elf) : p4_index(containing_address(elf[n].p_vaddr)) # RECURSIVE_INDEX)
               => /\ ~level_4_entries[RECURSIVE_INDEX]
                  /\ \A k \in 1..Len(log) :
                        log[k].op = "map" => p4_index(log[k].page) # RECURSIVE_INDEX

\* C40: frame exhaustion is permanent: once allocate_frame has returned none,
\* every later allocate_frame call on the same allocator returns none too;
\* and each call visits each remaining descriptor of the memory map at most
\* once: the iterator only moves forward, a frame comes from the current
\* descriptor or from one the call has just passed, and a call that returns
\* none has passed them all
C40_ExhaustionIsPermanent ==
    /\ [](last_alloc = "None" =>
             /\ allocate_frame(arch, memory_map, memory_map_pos, current_descriptor,
                               next_frame).frame = None
             /\ memory_map_pos = Len(memory_map)
             /\ current_descriptor = 0)
    /\ [][AllocateFrame =>
             /\ memory_map_pos <= memory_map_pos'
             /\ memory_map_pos' <= Len(memory_map)
             /\ last_alloc = "None" => (last_alloc' = "None" /\ returned' = returned)
             /\ last_alloc' = "Some" =>
                    returned'[Len(returned')].from
                        \in {current_descriptor} \cup ((memory_map_pos + 1)..memory_map_pos')]_vars

\* a map of two descriptors has given frames of both and is exhausted
C40_Witness ==
    /\ last_alloc = "None"
    /\ Len(memory_map) >= 2
    /\ \E i, j \in 1..Len(returned) : returned[i].from = 1 /\ returned[j].from = 2

=============================================================================
